---- MODULE Spec2Model ----
(***************************************************************************)
(* IAF Human Management System: the record normalizer (parseCSVData), the  *)
(* scoring engine (calculateReadinessScore, predictAttritionRisk,          *)
(* generateTrainingRecommendations) and the upload flow of the application *)
(* (FileUploadPage.handleFileUpload, App).                                 *)
(*                                                                         *)
(* JavaScript strings are sequences of one-character strings, so that      *)
(* toLowerCase, trim, split and replace are computed character by          *)
(* character.  JavaScript values that flow through untyped objects are     *)
(* tagged records (Undefined, NaN, Num(n), Str(s)).  Numbers are integers: *)
(* the alphabet of the modelled inputs has no decimal point, exponent or   *)
(* "Infinity".  Time is counted in whole days since 1970-01-01.            *)
(***************************************************************************)
EXTENDS Integers, Sequences, FiniteSets, TLC

VARIABLES
    pc,               \* "start" before the scoring function is applied, "done" after
    personnel,        \* the PersonnelData record handed to the scoring engine
    now,              \* new Date(), in days
    score,            \* result of calculateReadinessScore(personnel)
    risk,             \* result of predictAttritionRisk(personnel)
    prevRisk,         \* result for the same record before one risk factor was raised
    raisedFactor,     \* the risk factor that was raised last ("none" at first)
    recommendations,  \* result of generateTrainingRecommendations(personnel)
    fileLines,        \* the uploaded sheet as written, line by line
    text,             \* the file's content as FileReader.readAsText delivers it
    result,           \* the promise parseCSVData returns
    currentUser,      \* App state: the id of the logged-in user, or NoUser
    personnelData,    \* App state: the collection in memory
    isDataLoaded,     \* App state: the dashboard is shown instead of the upload page
    sessionUser,      \* localStorage iaf_current_user
    userData,         \* localStorage iaf_user_data: each user's snapshot
    uploadError,      \* FileUploadPage state
    isUploading,      \* FileUploadPage state
    uploadSuccess,    \* FileUploadPage state
    uploads,          \* the calls of handleFileUpload past the file-name check
    trainingPrograms, \* TrainingManagement state: the training store
    missions,         \* MissionDeployment state: the mission store
    searchTerm,       \* the search box of the planning views
    filterSpecialization, \* the specialization filter of the planning views
    analytics,        \* WorkforceAnalytics: the memoized analytics
    medicalAnalytics, \* MedicalReadiness: the memoized medicalAnalytics
    averages,         \* WorkforceAnalytics: the averages of the key metrics
    missionSummary,   \* MissionDeployment: the summary statistics
    selectedSpecialization, \* PredictiveAnalytics state
    predictive,       \* PredictiveAnalytics: the memoized analytics
    users,            \* localStorage iaf_users: the registered users
    authResult,       \* what the last call of register or login returned
    error,            \* the error message of the login or register form
    filterRank,       \* PersonnelOverview state
    currentPage       \* PersonnelOverview state

scoreVars == <<pc, personnel, now, score, risk, prevRisk, raisedFactor, recommendations>>

parseVars == <<fileLines, text, result>>

pageVars == <<uploadError, isUploading, uploadSuccess>>

appVars == <<currentUser, personnelData, isDataLoaded, sessionUser, userData,
             pageVars, uploads>>

planVars == <<trainingPrograms, missions, searchTerm, filterSpecialization>>

statVars == <<analytics, medicalAnalytics>>

metricVars == <<averages, missionSummary, selectedSpecialization, predictive>>

authVars == <<users, authResult, error>>

dirVars == <<filterRank, currentPage>>

vars == <<scoreVars, parseVars, appVars, planVars, statVars, metricVars,
          authVars, dirVars>>

---------------------------------------------------------------------------
(* JavaScript values *)

Undefined == [t |-> "undefined", n |-> 0, s |-> <<>>]

NaN == [t |-> "nan", n |-> 0, s |-> <<>>]

Null == [t |-> "null", n |-> 0, s |-> <<>>]

Num(x) == [t |-> "number", n |-> x, s |-> <<>>]

\* Infinity and -Infinity: n holds the sign
Infinity == [t |-> "infinity", n |-> 1, s |-> <<>>]

NegativeInfinity == [t |-> "infinity", n |-> 0 - 1, s |-> <<>>]

Str(x) == [t |-> "string", n |-> 0, s |-> x]

\* ToBoolean, as `a || b` applies it
Truthy(v) ==
    CASE v.t = "string" -> Len(v.s) > 0
      [] v.t = "number" -> v.n # 0
      [] v.t = "infinity" -> TRUE
      [] OTHER -> FALSE

\* a || b
Or(a, b) == IF Truthy(a) THEN a ELSE b

---------------------------------------------------------------------------
(* Characters and strings *)

UpperChars == <<"A","B","C","D","E","F","G","H","I","J","K","L","M",
                "N","O","P","Q","R","S","T","U","V","W","X","Y","Z">>

LowerChars == <<"a","b","c","d","e","f","g","h","i","j","k","l","m",
                "n","o","p","q","r","s","t","u","v","w","x","y","z">>

DigitChars == <<"0","1","2","3","4","5","6","7","8","9">>

\* the white space String.prototype.trim strips and /\s/ matches
WhiteSpace == {" ", "\t", "\r", "\n"}

Range(f) == {f[i] : i \in DOMAIN f}

IsDigit(c) == c \in Range(DigitChars)

DigitValue(c) == (CHOOSE i \in 1..10 : DigitChars[i] = c) - 1

CharToLowerCase(c) ==
    IF c \in Range(UpperChars)
    THEN LowerChars[CHOOSE i \in 1..26 : UpperChars[i] = c]
    ELSE c

RECURSIVE ToLowerCase(_)
ToLowerCase(s) ==
    IF s = <<>> THEN <<>>
    ELSE <<CharToLowerCase(Head(s))>> \o ToLowerCase(Tail(s))

\* value?.toLowerCase(): undefined stays undefined
OptionalToLowerCase(v) ==
    IF v.t = "string" THEN Str(ToLowerCase(v.s)) ELSE Undefined

RECURSIVE TrimStart(_)
TrimStart(s) ==
    IF s # <<>> /\ Head(s) \in WhiteSpace THEN TrimStart(Tail(s)) ELSE s

RECURSIVE TrimEnd(_)
TrimEnd(s) ==
    IF s # <<>> /\ s[Len(s)] \in WhiteSpace
    THEN TrimEnd(SubSeq(s, 1, Len(s) - 1))
    ELSE s

Trim(s) == TrimEnd(TrimStart(s))

\* the value of the leading run of decimal digits of s, continuing from acc
RECURSIVE DigitsValue(_, _)
DigitsValue(s, acc) ==
    IF s # <<>> /\ IsDigit(Head(s))
    THEN DigitsValue(Tail(s), 10 * acc + DigitValue(Head(s)))
    ELSE acc

RECURSIVE AllDigits(_)
AllDigits(s) == s = <<>> \/ (IsDigit(Head(s)) /\ AllDigits(Tail(s)))

\* parseFloat(s): skips leading white space, reads an optional sign and
\* the word Infinity or the longest run of digits, ignores what follows;
\* NaN when there is neither
ParseFloat(s) ==
    LET t == TrimStart(s)
        signed == t # <<>> /\ Head(t) \in {"-", "+"}
        body == IF signed THEN Tail(t) ELSE t
    IN  IF Len(body) >= 8 /\ SubSeq(body, 1, 8) = <<"I","n","f","i","n","i","t","y">>
        THEN (IF signed /\ Head(t) = "-" THEN NegativeInfinity ELSE Infinity)
        ELSE IF body = <<>> \/ ~IsDigit(Head(body)) THEN NaN
        ELSE IF signed /\ Head(t) = "-" THEN Num(0 - DigitsValue(body, 0))
        ELSE Num(DigitsValue(body, 0))

\* Number(s), the conversion arithmetic and comparison apply to a string:
\* the whole trimmed string must be a number; the empty string is 0
StringToNumber(s) ==
    LET t == Trim(s)
        signed == t # <<>> /\ Head(t) \in {"-", "+"}
        body == IF signed THEN Tail(t) ELSE t
    IN  IF t = <<>> THEN Num(0)
        ELSE IF body = <<"I","n","f","i","n","i","t","y">>
        THEN (IF Head(t) = "-" THEN NegativeInfinity ELSE Infinity)
        ELSE IF body = <<>> \/ ~AllDigits(body) THEN NaN
        ELSE IF Head(t) = "-" THEN Num(0 - DigitsValue(body, 0))
        ELSE Num(DigitsValue(body, 0))

\* ToNumber(v)
ToNumber(v) ==
    CASE v.t \in {"number", "infinity"} -> v
      [] v.t = "string" -> StringToNumber(v.s)
      [] OTHER -> NaN

\* x > k, x < k and x >= k for a converted value x and a number k: false
\* for NaN
NumGreater(x, k) == (x.t = "number" /\ x.n > k) \/ (x.t = "infinity" /\ x.n > 0)

NumLess(x, k) == (x.t = "number" /\ x.n < k) \/ (x.t = "infinity" /\ x.n < 0)

NumGreaterEq(x, k) == (x.t = "number" /\ x.n >= k) \/ (x.t = "infinity" /\ x.n > 0)

\* v > k and v < k for a number k: false when v converts to NaN
JsGreater(v, k) == NumGreater(ToNumber(v), k)

JsLess(v, k) == NumLess(ToNumber(v), k)

Min(a, b) == IF a < b THEN a ELSE b

---------------------------------------------------------------------------
(* String literals of the source *)

Lit == [
    fit          |-> <<"f","i","t">>,
    limitedDuty  |-> <<"l","i","m","i","t","e","d"," ","d","u","t","y">>,
    underReview  |-> <<"u","n","d","e","r"," ","r","e","v","i","e","w">>,
    expert       |-> <<"e","x","p","e","r","t">>,
    advanced     |-> <<"a","d","v","a","n","c","e","d">>,
    intermediate |-> <<"i","n","t","e","r","m","e","d","i","a","t","e">>,
    beginner     |-> <<"b","e","g","i","n","n","e","r">>,
    notReady     |-> <<"n","o","t"," ","r","e","a","d","y">>,
    high         |-> <<"h","i","g","h">>,
    training     |-> <<"t","r","a","i","n","i","n","g">> ]

\* the recommendation strings generateTrainingRecommendations pushes
Rec == [
    core        |-> <<"C","o","r","e"," ","S","k","i","l","l","s"," ","R","e","f","r","e","s","h","e","r"," ","T","r","a","i","n","i","n","g">>,
    technical   |-> <<"A","d","v","a","n","c","e","d"," ","T","e","c","h","n","i","c","a","l"," ","T","r","a","i","n","i","n","g">>,
    leadership  |-> <<"L","e","a","d","e","r","s","h","i","p"," ","D","e","v","e","l","o","p","m","e","n","t"," ","P","r","o","g","r","a","m">>,
    mission     |-> <<"M","i","s","s","i","o","n"," ","R","e","a","d","i","n","e","s","s"," ","A","s","s","e","s","s","m","e","n","t">>,
    deployment  |-> <<"D","e","p","l","o","y","m","e","n","t"," ","R","e","a","d","i","n","e","s","s"," ","T","r","a","i","n","i","n","g">>,
    maintenance |-> <<"M","a","i","n","t","e","n","a","n","c","e"," ","T","r","a","i","n","i","n","g">> ]

---------------------------------------------------------------------------
(* Scoring engine *)

\* Math.round of x/100 for x in hundredths: floor(x/100 + 1/2)
MathRound100(x) == (x + 50) \div 100

\* the sum of the four components, in hundredths, for the medical points
\* s1, the converted training score ts and experience ex and the skill
\* points sk, rounded as Math.round(score * 100) / 100
WeightedScore(s1, ts, ex, sk) ==
    IF ts.t = "nan" \/ ex.t = "nan" THEN NaN
    ELSE IF ts.t = "infinity" /\ ex.t = "infinity" /\ ex.n < 0
    THEN (IF ts.n > 0 THEN NaN ELSE NegativeInfinity)
    ELSE IF ts.t = "infinity" THEN ts
    ELSE IF ex.t = "infinity" /\ ex.n < 0 THEN NegativeInfinity
    ELSE Num(MathRound100(
             s1 + ((ts.n * 100) \div 100) * 30
                + (IF ex.t = "infinity" THEN 1 * 100
                   ELSE Min((ex.n * 100) \div 20, 1 * 100)) * 20
                + sk))

\* calculateReadinessScore with the categorical fields compared as written
calculateReadinessScore_CaseSensitive(p) ==
    LET med == p.medicalStatus
        s1 == CASE med = Str(Lit.fit) -> 0 + 40 * 100
                [] med = Str(Lit.limitedDuty) -> 0 + 25 * 100
                [] med = Str(Lit.underReview) -> 0 + 10 * 100
                [] OTHER -> 0 + 20 * 100
        skill == p.skillLevel
        sk == CASE skill = Str(Lit.expert) -> 10 * 100
                [] skill = Str(Lit.advanced) -> 8 * 100
                [] skill = Str(Lit.intermediate) -> 6 * 100
                [] skill = Str(Lit.beginner) -> 4 * 100
                [] OTHER -> 5 * 100
    IN  WeightedScore(s1, ToNumber(p.trainingScore), ToNumber(p.experience), sk)

\* The score is accumulated in hundredths, so that trainingScore / 100 and
\* experience / 20 are exact for integer inputs.
calculateReadinessScore(p) ==
    LET med == OptionalToLowerCase(p.medicalStatus)
        s1 == CASE med = Str(Lit.fit) -> 0 + 40 * 100
                [] med = Str(Lit.limitedDuty) -> 0 + 25 * 100
                [] med = Str(Lit.underReview) -> 0 + 10 * 100
                [] OTHER -> 0 + 20 * 100
        skill == OptionalToLowerCase(p.skillLevel)
        sk == CASE skill = Str(Lit.expert) -> 10 * 100
                [] skill = Str(Lit.advanced) -> 8 * 100
                [] skill = Str(Lit.intermediate) -> 6 * 100
                [] skill = Str(Lit.beginner) -> 4 * 100
                [] OTHER -> 5 * 100
    IN  WeightedScore(s1, ToNumber(p.trainingScore), ToNumber(p.experience), sk)

\* new Date(v).getTime() in days for the ISO form YYYY-MM-DD (UTC midnight);
\* NaN (Invalid Date) for undefined and for any other string of the model
DateGetTime(v) ==
    LET s == v.s
        shaped == /\ v.t = "string"
                  /\ Len(s) = 10
                  /\ s[5] = "-" /\ s[8] = "-"
                  /\ \A i \in {1, 2, 3, 4, 6, 7, 9, 10} : IsDigit(s[i])
        y == DigitsValue(SubSeq(s, 1, 4), 0)
        m == DigitsValue(SubSeq(s, 6, 7), 0)
        d == DigitsValue(SubSeq(s, 9, 10), 0)
        y2 == IF m <= 2 THEN y - 1 ELSE y
        era == y2 \div 400
        yoe == y2 - era * 400
        doy == (153 * (IF m > 2 THEN m - 3 ELSE m + 9) + 2) \div 5 + d - 1
        doe == yoe * 365 + yoe \div 4 - yoe \div 100 + doy
    IN  IF shaped /\ m \in 1..12 /\ d \in 1..31
        THEN Num(era * 146097 + doe - 719468)
        ELSE NaN

\* riskScore with the age thresholds inclusive (>= 45, >= 40)
riskScore_InclusiveAge(p) ==
    LET ageFactor == IF ~JsLess(p.age, 45) THEN 2
                     ELSE IF ~JsLess(p.age, 40) THEN 1
                     ELSE 0
        experienceFactor == IF JsGreater(p.experience, 15) THEN 2
                            ELSE IF JsGreater(p.experience, 10) THEN 1
                            ELSE 0
        medicalFactor == IF OptionalToLowerCase(p.medicalStatus) # Str(Lit.fit)
                         THEN 1 ELSE 0
        trainingFactor == IF JsLess(p.trainingScore, 70) THEN 1 ELSE 0
        readinessFactor ==
            IF OptionalToLowerCase(p.missionReadiness) = Str(Lit.notReady)
            THEN 1 ELSE 0
    IN  0 + ageFactor + experienceFactor + medicalFactor + trainingFactor
          + readinessFactor

\* riskScore with the training-score comparison turned round (> 70)
riskScore_TrainingAbove(p) ==
    LET ageFactor == IF JsGreater(p.age, 45) THEN 2
                     ELSE IF JsGreater(p.age, 40) THEN 1
                     ELSE 0
        experienceFactor == IF JsGreater(p.experience, 15) THEN 2
                            ELSE IF JsGreater(p.experience, 10) THEN 1
                            ELSE 0
        medicalFactor == IF OptionalToLowerCase(p.medicalStatus) # Str(Lit.fit)
                         THEN 1 ELSE 0
        trainingFactor == IF JsGreater(p.trainingScore, 70) THEN 1 ELSE 0
        readinessFactor ==
            IF OptionalToLowerCase(p.missionReadiness) = Str(Lit.notReady)
            THEN 1 ELSE 0
    IN  0 + ageFactor + experienceFactor + medicalFactor + trainingFactor
          + readinessFactor

\* let riskScore = 0, then one `riskScore +=` per factor
riskScore(p) ==
    LET ageFactor == IF JsGreater(p.age, 45) THEN 2
                     ELSE IF JsGreater(p.age, 40) THEN 1
                     ELSE 0
        experienceFactor == IF JsGreater(p.experience, 15) THEN 2
                            ELSE IF JsGreater(p.experience, 10) THEN 1
                            ELSE 0
        medicalFactor == IF OptionalToLowerCase(p.medicalStatus) # Str(Lit.fit)
                         THEN 1 ELSE 0
        trainingFactor == IF JsLess(p.trainingScore, 70) THEN 1 ELSE 0
        readinessFactor ==
            IF OptionalToLowerCase(p.missionReadiness) = Str(Lit.notReady)
            THEN 1 ELSE 0
    IN  0 + ageFactor + experienceFactor + medicalFactor + trainingFactor
          + readinessFactor

predictAttritionRisk(p) ==
    LET r == riskScore(p)
    IN  IF r >= 4 THEN "High"
        ELSE IF r >= 2 THEN "Medium"
        ELSE "Low"

\* nowDay - lastDeployment in days: Math.floor of a whole number of days
daysSinceDeployment(p, nowDay) ==
    LET t == DateGetTime(p.lastDeployment)
    IN  IF t.t = "number" THEN Num(nowDay - t.n) ELSE NaN

\* generateTrainingRecommendations without the final fallback push
generateTrainingRecommendations_NoFallback(p, nowDay) ==
    LET skill == OptionalToLowerCase(p.skillLevel)
    IN     (IF JsLess(p.trainingScore, 70) THEN <<Rec.core>> ELSE <<>>)
        \o (IF skill = Str(Lit.beginner) \/ skill = Str(Lit.intermediate)
            THEN <<Rec.technical>> ELSE <<>>)
        \o (IF /\ OptionalToLowerCase(p.leadershipPotential) = Str(Lit.high)
               /\ JsGreater(p.experience, 5)
            THEN <<Rec.leadership>> ELSE <<>>)
        \o (IF OptionalToLowerCase(p.missionReadiness) = Str(Lit.training)
            THEN <<Rec.mission>> ELSE <<>>)
        \o (IF JsGreater(daysSinceDeployment(p, nowDay), 365)
            THEN <<Rec.deployment>> ELSE <<>>)

\* generateTrainingRecommendations with the leadership rule reading
\* experience >= 5 and pushed after the mission-readiness rule
generateTrainingRecommendations_Reordered(p, nowDay) ==
    LET skill == OptionalToLowerCase(p.skillLevel)
        pushed ==
            (IF JsLess(p.trainingScore, 70) THEN <<Rec.core>> ELSE <<>>)
         \o (IF skill = Str(Lit.beginner) \/ skill = Str(Lit.intermediate)
             THEN <<Rec.technical>> ELSE <<>>)
         \o (IF OptionalToLowerCase(p.missionReadiness) = Str(Lit.training)
             THEN <<Rec.mission>> ELSE <<>>)
         \o (IF /\ OptionalToLowerCase(p.leadershipPotential) = Str(Lit.high)
                /\ ~JsLess(p.experience, 5)
             THEN <<Rec.leadership>> ELSE <<>>)
         \o (IF JsGreater(daysSinceDeployment(p, nowDay), 365)
             THEN <<Rec.deployment>> ELSE <<>>)
    IN  IF Len(pushed) = 0 THEN <<Rec.maintenance>> ELSE pushed

generateTrainingRecommendations(p, nowDay) ==
    LET skill == OptionalToLowerCase(p.skillLevel)
        \* the pushes, in the order of the source
        pushed ==
            (IF JsLess(p.trainingScore, 70) THEN <<Rec.core>> ELSE <<>>)
         \o (IF skill = Str(Lit.beginner) \/ skill = Str(Lit.intermediate)
             THEN <<Rec.technical>> ELSE <<>>)
         \o (IF /\ OptionalToLowerCase(p.leadershipPotential) = Str(Lit.high)
                /\ JsGreater(p.experience, 5)
             THEN <<Rec.leadership>> ELSE <<>>)
         \o (IF OptionalToLowerCase(p.missionReadiness) = Str(Lit.training)
             THEN <<Rec.mission>> ELSE <<>>)
         \o (IF JsGreater(daysSinceDeployment(p, nowDay), 365)
             THEN <<Rec.deployment>> ELSE <<>>)
    IN  IF Len(pushed) = 0 THEN <<Rec.maintenance>> ELSE pushed

---------------------------------------------------------------------------
(* Record normalizer: parseCSVData *)

\* s.split(c) for a one-character separator
RECURSIVE Split(_, _)
Split(s, c) ==
    IF \A i \in 1..Len(s) : s[i] # c THEN <<s>>
    ELSE LET k == CHOOSE i \in 1..Len(s) :
                      s[i] = c /\ \A j \in 1..(i - 1) : s[j] # c
         IN  <<SubSeq(s, 1, k - 1)>> \o Split(SubSeq(s, k + 1, Len(s)), c)

IsQuote(c) == c = "\""

IsNotQuote(c) == ~IsQuote(c)

\* s.replace(/"/g, '')
RemoveQuotes(s) == SelectSeq(s, IsNotQuote)

IsLowerAlnum(c) == c \in Range(LowerChars) \cup Range(DigitChars)

\* header.toLowerCase().replace(/[^a-z0-9]/g, '').replace(/\s+/g, '')
normalizeHeader(header) == SelectSeq(ToLowerCase(header), IsLowerAlnum)

\* line.split(',').map(v => v.trim().replace(/"/g, ''))
SplitFields(line) ==
    LET raw == Split(line, ",")
    IN  [j \in 1..Len(raw) |-> RemoveQuotes(Trim(raw[j]))]

IsNotBlank(line) == Trim(line) # <<>>

\* text.split('\n').filter(line => line.trim())
NonBlankLines(t) == SelectSeq(Split(t, "\n"), IsNotBlank)

\* String(i) for i >= 0
RECURSIVE NumberToString(_)
NumberToString(i) ==
    IF i < 10 THEN <<DigitChars[i + 1]>>
    ELSE NumberToString(i \div 10) \o <<DigitChars[(i % 10) + 1]>>

\* s.padStart(n, '0')
RECURSIVE PadStartZero(_, _)
PadStartZero(s, n) == IF Len(s) >= n THEN s ELSE PadStartZero(<<"0">> \o s, n)

\* the keys the source reads from `record`, in the order of each || chain
Aliases == [
    id                  |-> << <<"i","d">>, <<"I","D">> >>,
    name                |-> << <<"n","a","m","e">>, <<"N","a","m","e">>, <<"f","u","l","l","n","a","m","e">>, <<"F","u","l","l","N","a","m","e">> >>,
    rank                |-> << <<"r","a","n","k">>, <<"R","a","n","k">>, <<"g","r","a","d","e">>, <<"G","r","a","d","e">> >>,
    branch              |-> << <<"b","r","a","n","c","h">>, <<"B","r","a","n","c","h">>, <<"s","e","r","v","i","c","e">>, <<"S","e","r","v","i","c","e">> >>,
    specialization      |-> << <<"s","p","e","c","i","a","l","i","z","a","t","i","o","n">>, <<"S","p","e","c","i","a","l","i","z","a","t","i","o","n">>,
                               <<"s","p","e","c","i","a","l","t","y">>, <<"S","p","e","c","i","a","l","t","y">> >>,
    experience          |-> << <<"e","x","p","e","r","i","e","n","c","e">>, <<"E","x","p","e","r","i","e","n","c","e">>,
                               <<"y","e","a","r","s","o","f","s","e","r","v","i","c","e">>, <<"Y","e","a","r","s","O","f","S","e","r","v","i","c","e">> >>,
    age                 |-> << <<"a","g","e">>, <<"A","g","e">> >>,
    medicalStatus       |-> << <<"m","e","d","i","c","a","l","s","t","a","t","u","s">>, <<"M","e","d","i","c","a","l","S","t","a","t","u","s">>,
                               <<"m","e","d","i","c","a","l">>, <<"M","e","d","i","c","a","l">> >>,
    trainingScore       |-> << <<"t","r","a","i","n","i","n","g","s","c","o","r","e">>, <<"T","r","a","i","n","i","n","g","S","c","o","r","e">>,
                               <<"s","c","o","r","e">>, <<"S","c","o","r","e">> >>,
    missionReadiness    |-> << <<"m","i","s","s","i","o","n","r","e","a","d","i","n","e","s","s">>, <<"M","i","s","s","i","o","n","R","e","a","d","i","n","e","s","s">>,
                               <<"r","e","a","d","i","n","e","s","s">>, <<"R","e","a","d","i","n","e","s","s">> >>,
    lastDeployment      |-> << <<"l","a","s","t","d","e","p","l","o","y","m","e","n","t">>, <<"L","a","s","t","D","e","p","l","o","y","m","e","n","t">>,
                               <<"d","e","p","l","o","y","m","e","n","t">>, <<"D","e","p","l","o","y","m","e","n","t">> >>,
    skillLevel          |-> << <<"s","k","i","l","l","l","e","v","e","l">>, <<"S","k","i","l","l","L","e","v","e","l">>, <<"l","e","v","e","l">>, <<"L","e","v","e","l">> >>,
    leadershipPotential |-> << <<"l","e","a","d","e","r","s","h","i","p","p","o","t","e","n","t","i","a","l">>, <<"L","e","a","d","e","r","s","h","i","p","P","o","t","e","n","t","i","a","l">>,
                               <<"l","e","a","d","e","r","s","h","i","p">>, <<"L","e","a","d","e","r","s","h","i","p">> >> ]

\* ['experience', 'age', 'trainingscore', 'score']
NumericKeys == { Aliases.experience[1], Aliases.age[1],
                 Aliases.trainingScore[1], Aliases.trainingScore[3] }

\* the fixed values and the value lists Math.random() indexes
Defaults == [
    idPrefix            |-> <<"I","A","F">>,
    namePrefix          |-> <<"P","e","r","s","o","n","n","e","l"," ">>,
    rank                |-> <<"O","f","f","i","c","e","r">>,
    branch              |-> <<"A","i","r"," ","F","o","r","c","e">>,
    specialization      |-> <<"G","e","n","e","r","a","l">>,
    lastDeployment      |-> <<"2","0","2","4","-","0","1","-","0","1">>,
    medicalStatus       |-> << <<"F","i","t">>, <<"U","n","d","e","r"," ","R","e","v","i","e","w">>, <<"L","i","m","i","t","e","d"," ","D","u","t","y">> >>,
    missionReadiness    |-> << <<"R","e","a","d","y">>, <<"T","r","a","i","n","i","n","g">>, <<"N","o","t"," ","R","e","a","d","y">> >>,
    skillLevel          |-> << <<"E","x","p","e","r","t">>, <<"A","d","v","a","n","c","e","d">>, <<"I","n","t","e","r","m","e","d","i","a","t","e">>, <<"B","e","g","i","n","n","e","r">> >>,
    leadershipPotential |-> << <<"H","i","g","h">>, <<"M","e","d","i","u","m">>, <<"L","o","w">> >> ]

\* record[key], undefined for a key the object does not have
Get(record, key) == IF key \in DOMAIN record THEN record[key] ELSE Undefined

\* record.a || record.b || ... || default
RECURSIVE FirstTruthy(_, _, _)
FirstTruthy(record, keys, default) ==
    IF keys = <<>> THEN default
    ELSE Or(Get(record, Head(keys)), FirstTruthy(record, Tail(keys), default))

\* the object the headers.forEach loop fills: a later column with the same
\* normalized header overwrites an earlier one
BuildRecord(headers, values) ==
    LET n == Len(headers)
        keys == {normalizeHeader(headers[j]) : j \in 1..n}
        last(k) == CHOOSE j \in 1..n :
                       /\ normalizeHeader(headers[j]) = k
                       /\ \A j2 \in (j + 1)..n : normalizeHeader(headers[j2]) # k
    IN  [k \in keys |->
            IF k \in NumericKeys
            THEN Or(ParseFloat(values[last(k)]), Num(0))
            ELSE Or(Str(values[last(k)]), Str(<<>>))]

\* { <defaults>, ...record }: a key of record that spells a field of the
\* literal replaces that field; the other keys are carried as they are
Spread(record, key, value) == IF key \in DOMAIN record THEN record[key] ELSE value

LiteralKeys == { Aliases.id[1], Aliases.name[1], Aliases.rank[1],
                 Aliases.branch[1], Aliases.specialization[1],
                 Aliases.experience[1], Aliases.age[1] }

\* draw.f is Math.floor(Math.random() * n) for field f
personnelRecord(record, i, draw) ==
    [ id |-> Spread(record, Aliases.id[1],
                FirstTruthy(record, Aliases.id,
                    Str(Defaults.idPrefix \o PadStartZero(NumberToString(i), 4)))),
      name |-> Spread(record, Aliases.name[1],
                FirstTruthy(record, Aliases.name,
                    Str(Defaults.namePrefix \o NumberToString(i)))),
      rank |-> Spread(record, Aliases.rank[1],
                FirstTruthy(record, Aliases.rank, Str(Defaults.rank))),
      branch |-> Spread(record, Aliases.branch[1],
                FirstTruthy(record, Aliases.branch, Str(Defaults.branch))),
      specialization |-> Spread(record, Aliases.specialization[1],
                FirstTruthy(record, Aliases.specialization,
                    Str(Defaults.specialization))),
      experience |-> Spread(record, Aliases.experience[1],
                FirstTruthy(record, Aliases.experience, Num(draw.experience + 1))),
      age |-> Spread(record, Aliases.age[1],
                FirstTruthy(record, Aliases.age, Num(draw.age + 25))),
      medicalStatus |-> FirstTruthy(record, Aliases.medicalStatus,
                Str(Defaults.medicalStatus[draw.medicalStatus + 1])),
      trainingScore |-> FirstTruthy(record, Aliases.trainingScore,
                Num(draw.trainingScore + 60)),
      missionReadiness |-> FirstTruthy(record, Aliases.missionReadiness,
                Str(Defaults.missionReadiness[draw.missionReadiness + 1])),
      lastDeployment |-> FirstTruthy(record, Aliases.lastDeployment,
                Str(Defaults.lastDeployment)),
      skillLevel |-> FirstTruthy(record, Aliases.skillLevel,
                Str(Defaults.skillLevel[draw.skillLevel + 1])),
      leadershipPotential |-> FirstTruthy(record, Aliases.leadershipPotential,
                Str(Defaults.leadershipPotential[draw.leadershipPotential + 1])),
      extra |-> [k \in (DOMAIN record) \ LiteralKeys |-> record[k]] ]

\* one iteration of the loop over lines[i] (i counts from 1 after the header):
\* the records it pushes, none when the field count differs
ParseRow(headers, line, i, draw) ==
    LET values == SplitFields(line)
    IN  IF Len(values) # Len(headers) THEN <<>>
        ELSE <<personnelRecord(BuildRecord(headers, values), i, draw)>>

\* the loop leaving at the first row of another field count (break for
\* continue)
RECURSIVE ParseRows_BreakOnMismatch(_, _, _, _)
ParseRows_BreakOnMismatch(headers, lines, i, rnd) ==
    IF i + 1 > Len(lines) THEN <<>>
    ELSE IF ParseRow(headers, lines[i + 1], i, rnd[i]) = <<>> THEN <<>>
    ELSE ParseRow(headers, lines[i + 1], i, rnd[i])
         \o ParseRows_BreakOnMismatch(headers, lines, i + 1, rnd)

\* iterations i, i+1, ... of the loop; lines[1] is the header
RECURSIVE ParseRows(_, _, _, _)
ParseRows(headers, lines, i, rnd) ==
    IF i + 1 > Len(lines) THEN <<>>
    ELSE ParseRow(headers, lines[i + 1], i, rnd[i])
         \o ParseRows(headers, lines, i + 1, rnd)

Pending == [status |-> "pending", data |-> <<>>, message |-> ""]

Resolved(data) == [status |-> "resolved", data |-> data, message |-> ""]

Rejected(message) == [status |-> "rejected", data |-> <<>>, message |-> message]

\* parseCSVData asking for a header row only (lines.length < 1)
parseCSVData_HeaderOnly(t, rnd) ==
    LET lines == NonBlankLines(t)
    IN  IF Len(lines) < 1
        THEN Rejected("File must contain at least a header row and one data row")
        ELSE Resolved(ParseRows(SplitFields(lines[1]), lines, 1, rnd))

\* reader.onload: how the promise settles for the text read
parseCSVData(t, rnd) ==
    LET lines == NonBlankLines(t)
    IN  IF Len(lines) < 2
        THEN Rejected("File must contain at least a header row and one data row")
        ELSE Resolved(ParseRows(SplitFields(lines[1]), lines, 1, rnd))


---------------------------------------------------------------------------
(* Inputs of the scoring engine *)

InStr == [
    Fit          |-> Str(<<"F","i","t">>),
    FIT          |-> Str(<<"F","I","T">>),
    LimitedDuty  |-> Str(<<"L","i","m","i","t","e","d"," ","D","u","t","y">>),
    UnderReview  |-> Str(<<"U","n","d","e","r"," ","R","e","v","i","e","w">>),
    Unfit        |-> Str(<<"U","n","f","i","t">>),
    Expert       |-> Str(<<"E","x","p","e","r","t">>),
    EXPERT       |-> Str(<<"E","X","P","E","R","T">>),
    Advanced     |-> Str(<<"A","d","v","a","n","c","e","d">>),
    Intermediate |-> Str(<<"I","n","t","e","r","m","e","d","i","a","t","e">>),
    Beginner     |-> Str(<<"B","e","g","i","n","n","e","r">>),
    BEGINNER     |-> Str(<<"B","E","G","I","N","N","E","R">>),
    Ready        |-> Str(<<"R","e","a","d","y">>),
    NotReady     |-> Str(<<"N","o","t"," ","R","e","a","d","y">>),
    NOTREADY     |-> Str(<<"N","O","T"," ","R","E","A","D","Y">>),
    Training     |-> Str(<<"T","r","a","i","n","i","n","g">>),
    TRAINING     |-> Str(<<"T","R","A","I","N","I","N","G">>),
    High         |-> Str(<<"H","i","g","h">>),
    HIGH         |-> Str(<<"H","I","G","H">>),
    Medium       |-> Str(<<"M","e","d","i","u","m">>),
    Low          |-> Str(<<"L","o","w">>),
    Empty        |-> Str(<<>>),
    d2024        |-> Str(<<"2","0","2","4","-","0","1","-","0","1">>),
    d2023        |-> Str(<<"2","0","2","3","-","0","1","-","0","1">>),
    noDate       |-> Str(<<"n","/","a">>),
    twelve       |-> Str(<<"1","2">>) ]

\* a complete record; the specifications vary the fields their function reads
BasePersonnel == [
    id                  |-> Str(<<"I","A","F","0","0","0","1">>),
    name                |-> Str(<<"P","e","r","s","o","n","n","e","l"," ","1">>),
    rank                |-> Str(<<"O","f","f","i","c","e","r">>),
    branch              |-> Str(<<"A","i","r"," ","F","o","r","c","e">>),
    specialization      |-> Str(<<"G","e","n","e","r","a","l">>),
    experience          |-> Num(5),
    age                 |-> Num(35),
    medicalStatus       |-> InStr.Fit,
    trainingScore       |-> Num(80),
    missionReadiness    |-> InStr.Ready,
    lastDeployment      |-> InStr.d2024,
    skillLevel          |-> InStr.Expert,
    leadershipPotential |-> InStr.Low,
    extra               |-> <<>> ]

\* 2024-01-01 plus 365 days: the last day on which the default lastDeployment
\* is not yet "more than 365 days" ago
NowBase == 19723 + 365

ReadinessInputs ==
    { [BasePersonnel EXCEPT !.medicalStatus = m, !.trainingScore = ts,
                            !.experience = ex, !.skillLevel = sk] :
        m \in {InStr.Fit, InStr.FIT, InStr.LimitedDuty, InStr.UnderReview,
               InStr.Unfit, InStr.Empty, Undefined},
        ts \in {Undefined, Num(0), Num(55), Num(85), Num(100)},
        ex \in {Undefined, Num(0), Num(7), Num(20), Num(25), InStr.twelve},
        sk \in {InStr.Expert, InStr.EXPERT, InStr.Advanced, InStr.Intermediate,
                InStr.Beginner, InStr.Empty, Undefined} }

AgeInputs == {35, 40, 41, 45, 46}

ExperienceInputs == {5, 10, 11, 15, 16}

TrainingScoreInputs == {69, 70, 75, 80}

NotFitInputs == {InStr.Unfit, InStr.LimitedDuty, Undefined}

AttritionInputs ==
    { [BasePersonnel EXCEPT !.age = Num(a), !.experience = Num(ex),
                            !.medicalStatus = m, !.trainingScore = Num(ts),
                            !.missionReadiness = mr] :
        a \in AgeInputs, ex \in ExperienceInputs,
        m \in {InStr.Fit, InStr.FIT} \cup NotFitInputs,
        ts \in TrainingScoreInputs,
        mr \in {InStr.Ready, InStr.NotReady, InStr.NOTREADY, Undefined} }

RecommendationInputs ==
    { [BasePersonnel EXCEPT !.trainingScore = Num(ts), !.skillLevel = sk,
                            !.leadershipPotential = lp, !.experience = Num(ex),
                            !.missionReadiness = mr, !.lastDeployment = ld] :
        ts \in {69, 70},
        sk \in {InStr.Beginner, InStr.BEGINNER, InStr.Intermediate,
                InStr.Expert, Undefined},
        lp \in {InStr.High, InStr.HIGH, InStr.Low},
        ex \in {5, 6},
        mr \in {InStr.Training, InStr.TRAINING, InStr.Ready},
        ld \in {InStr.d2024, InStr.d2023, InStr.noDate, Undefined} }

\* the registered accounts, by user id
Users == {"u1", "u2"}

\* no user: null
NoUser == "null"

\* the handleFileUpload calls of one behaviour
MaxUploads == 2

\* getUserData(userId) of an account that has saved nothing
NoUserData == [present |-> FALSE, personnelData |-> <<>>]

\* a handleFileUpload call that has not been made
NoUpload == [pc |-> "idle", user |-> NoUser, text |-> <<>>, data |-> <<>>,
             mounted |-> FALSE]

\* useState('') , useState(false), useState(false) of FileUploadPage
PageInit == uploadError = "" /\ isUploading = FALSE /\ uploadSuccess = FALSE

\* the application as constructed, with an empty localStorage
AppIdle ==
    /\ currentUser = NoUser
    /\ personnelData = <<>>
    /\ isDataLoaded = FALSE
    /\ sessionUser = NoUser
    /\ userData = [u \in Users |-> NoUserData]
    /\ PageInit
    /\ uploads = [k \in 1..MaxUploads |-> NoUpload]


\* a training program or a mission: the fields the store's operations and
\* the candidate lists read
Entity(id, name, capacity, requiredSpecializations, status) ==
    [id |-> id, name |-> name, capacity |-> capacity,
     requiredSpecializations |-> requiredSpecializations,
     status |-> status, roster |-> <<>>]

\* useState of TrainingManagement: T001, T002, T003 (capacity is `capacity`,
\* roster is `enrolledPersonnel`)
InitialTrainingPrograms == <<
    Entity(<<"T","0","0","1">>, <<"A","d","v","a","n","c","e","d"," ","F","l","i","g","h","t"," ","O","p","e","r","a","t","i","o","n","s">>, 20, <<>>, "Planned"),
    Entity(<<"T","0","0","2">>, <<"L","e","a","d","e","r","s","h","i","p"," ","D","e","v","e","l","o","p","m","e","n","t"," ","P","r","o","g","r","a","m">>, 15, <<>>, "Active"),
    Entity(<<"T","0","0","3">>, <<"C","y","b","e","r"," ","S","e","c","u","r","i","t","y"," ","F","u","n","d","a","m","e","n","t","a","l","s">>, 25, <<>>, "Planned") >>

\* useState of MissionDeployment: M001, M002 (capacity is
\* `requiredPersonnel`, roster is `assignedPersonnel`)
InitialMissions == <<
    Entity(<<"M","0","0","1">>, <<"O","p","e","r","a","t","i","o","n"," ","T","h","u","n","d","e","r"," ","S","t","r","i","k","e">>, 25,
           << <<"P","i","l","o","t">>, <<"E","n","g","i","n","e","e","r">>, <<"C","o","m","m","u","n","i","c","a","t","i","o","n","s">> >>, "Planning"),
    Entity(<<"M","0","0","2">>, <<"H","u","m","a","n","i","t","a","r","i","a","n"," ","R","e","l","i","e","f"," ","A","l","p","h","a">>, 15,
           << <<"L","o","g","i","s","t","i","c","s">>, <<"M","e","d","i","c","a","l">>, <<"T","r","a","n","s","p","o","r","t">> >>, "Planning") >>

\* the planning views as constructed
PlanIdle ==
    /\ trainingPrograms = InitialTrainingPrograms
    /\ missions = InitialMissions
    /\ searchTerm = <<>>
    /\ filterSpecialization = <<"a","l","l">>

\* a view that has not rendered yet
NotComputed == [computed |-> FALSE]

\* the analytics views before their first render
StatIdle == analytics = NotComputed /\ medicalAnalytics = NotComputed

\* the key metrics of the views before their first render
MetricIdle ==
    /\ averages = NotComputed
    /\ missionSummary = NotComputed
    /\ selectedSpecialization = <<"a","l","l">>
    /\ predictive = NotComputed

\* no user registered, no call of the auth service made, no error shown
NoCall == [call |-> "none"]

AuthIdle == users = <<>> /\ authResult = NoCall /\ error = ""

\* the directory on its first page, with no rank filter
DirIdle == filterRank = <<"a","l","l">> /\ currentPage = 1

\* the normalizer at rest, for the specifications of the scoring engine
ParseIdle == fileLines = <<>> /\ text = <<>> /\ result = Pending

\* the scoring engine at rest, for the other specifications
ScoreIdle ==
    /\ pc = "start"
    /\ personnel = BasePersonnel
    /\ now = NowBase
    /\ score = Undefined
    /\ risk = "none"
    /\ prevRisk = "none"
    /\ raisedFactor = "none"
    /\ recommendations = <<>>

---------------------------------------------------------------------------
(* calculateReadinessScore applied to one record *)

InitReadiness ==
    /\ pc = "start"
    /\ personnel \in ReadinessInputs
    /\ now = NowBase
    /\ score = Undefined
    /\ risk = "none"
    /\ prevRisk = "none"
    /\ raisedFactor = "none"
    /\ recommendations = <<>>
    /\ ParseIdle
    /\ AppIdle
    /\ PlanIdle
    /\ StatIdle
    /\ MetricIdle
    /\ AuthIdle
    /\ DirIdle

CalculateReadinessScore ==
    /\ pc = "start"
    /\ pc' = "done"
    /\ score' = calculateReadinessScore(personnel)
    /\ UNCHANGED <<personnel, now, risk, prevRisk, raisedFactor, recommendations, parseVars, appVars, planVars, statVars, metricVars, authVars, dirVars>>

NextReadiness == CalculateReadinessScore

SpecReadiness == InitReadiness /\ [][NextReadiness]_vars

---------------------------------------------------------------------------
(* predictAttritionRisk applied to one record, and again to the record with
   one risk factor raised *)

InitAttrition ==
    /\ pc = "start"
    /\ personnel \in AttritionInputs
    /\ now = NowBase
    /\ score = Undefined
    /\ risk = "none"
    /\ prevRisk = "none"
    /\ raisedFactor = "none"
    /\ recommendations = <<>>
    /\ ParseIdle
    /\ AppIdle
    /\ PlanIdle
    /\ StatIdle
    /\ MetricIdle
    /\ AuthIdle
    /\ DirIdle

PredictAttritionRisk ==
    /\ pc = "start"
    /\ pc' = "done"
    /\ risk' = predictAttritionRisk(personnel)
    /\ UNCHANGED <<personnel, now, score, prevRisk, raisedFactor, recommendations, parseVars, appVars, planVars, statVars, metricVars, authVars, dirVars>>

\* the record with one factor raised is scored again
Rescore(p, factor) ==
    /\ pc = "done"
    /\ personnel' = p
    /\ prevRisk' = risk
    /\ risk' = predictAttritionRisk(p)
    /\ raisedFactor' = factor
    /\ UNCHANGED <<pc, now, score, recommendations, parseVars, appVars, planVars, statVars, metricVars, authVars, dirVars>>

RaiseAge ==
    \E a \in AgeInputs :
        /\ a > personnel.age.n
        /\ Rescore([personnel EXCEPT !.age = Num(a)], "age")

RaiseExperience ==
    \E ex \in ExperienceInputs :
        /\ ex > personnel.experience.n
        /\ Rescore([personnel EXCEPT !.experience = Num(ex)], "experience")

LowerTrainingScore ==
    \E ts \in TrainingScoreInputs :
        /\ ts < personnel.trainingScore.n
        /\ Rescore([personnel EXCEPT !.trainingScore = Num(ts)], "trainingScore")

MedicalStatusNotFit ==
    \E m \in NotFitInputs :
        /\ OptionalToLowerCase(personnel.medicalStatus) = Str(Lit.fit)
        /\ Rescore([personnel EXCEPT !.medicalStatus = m], "medicalStatus")

MissionReadinessNotReady ==
    \E mr \in {InStr.NotReady, InStr.NOTREADY} :
        /\ OptionalToLowerCase(personnel.missionReadiness) # Str(Lit.notReady)
        /\ Rescore([personnel EXCEPT !.missionReadiness = mr], "missionReadiness")

NextAttrition ==
    \/ PredictAttritionRisk
    \/ RaiseAge
    \/ RaiseExperience
    \/ LowerTrainingScore
    \/ MedicalStatusNotFit
    \/ MissionReadinessNotReady

SpecAttrition == InitAttrition /\ [][NextAttrition]_vars

---------------------------------------------------------------------------
(* generateTrainingRecommendations applied to one record on one day *)

InitRecommendations ==
    /\ pc = "start"
    /\ personnel \in RecommendationInputs
    /\ now \in {NowBase, NowBase + 1}
    /\ score = Undefined
    /\ risk = "none"
    /\ prevRisk = "none"
    /\ raisedFactor = "none"
    /\ recommendations = <<>>
    /\ ParseIdle
    /\ AppIdle
    /\ PlanIdle
    /\ StatIdle
    /\ MetricIdle
    /\ AuthIdle
    /\ DirIdle

GenerateTrainingRecommendations ==
    /\ pc = "start"
    /\ pc' = "done"
    /\ recommendations' = generateTrainingRecommendations(personnel, now)
    /\ UNCHANGED <<personnel, now, score, risk, prevRisk, raisedFactor, parseVars, appVars, planVars, statVars, metricVars, authVars, dirVars>>

NextRecommendations == GenerateTrainingRecommendations

SpecRecommendations == InitRecommendations /\ [][NextRecommendations]_vars

---------------------------------------------------------------------------
(* parseCSVData applied to one uploaded file *)

\* the longest sheet, header included
MaxLines == 3

\* a sheet of identities: repeated and empty ids, a quoted comma, a short row
IdSheet == [
    headers |-> { <<"i","d",",","n","a","m","e",",","r","a","n","k">>, <<" ","I","D"," ",","," ","\"","N","a","m","e","\""," ",",","R","A","N","K">> },
    rows    |-> { <<"I","A","F","7",",","A","s","h","a",",","C","a","p","t","a","i","n">>, <<"I","A","F","7",",","R","a","v","i",",","M","a","j","o","r">>, <<",","M","i","r","a",",","M","a","j","o","r">>,
                  <<"\"","I","A","F","9","\"",",","\"","D","e","v",","," ","J","r","\"",",","P","i","l","o","t">>, <<"I","A","F","8",",","Z","e","d">> } ]

\* a sheet of scores: unparsable numbers, a training score above 100, zeros
\* and empty categorical fields
ScoreSheet == [
    headers |-> { <<"n","a","m","e",",","e","x","p","e","r","i","e","n","c","e",",","a","g","e",",","T","r","a","i","n","i","n","g"," ","S","c","o","r","e",",","m","e","d","i","c","a","l","s","t","a","t","u","s",",","S","k","i","l","l"," ","L","e","v","e","l">> },
    rows    |-> { <<"A","s","h","a",",","1","2",",","3","0",",","8","5",",","F","i","t",",","E","x","p","e","r","t">>, <<"R","a","v","i",",","a","b","c",",","x",",","n","/","a",",","U","n","f","i","t",",","B","e","g","i","n","n","e","r">>,
                  <<"M","i","r","a",",","2","0",",","4","6",",","1","5","0",",","F","I","T",",","E","x","p","e","r","t">>, <<"D","e","v",",","0",",","0",",","0",",",",">> } ]

BlankLine == <<>>

\* the sheets of at most MaxLines lines: a header or a blank line, then rows
\* and blank lines
SheetLines(sheet) ==
    UNION { { <<h>> \o r : h \in sheet.headers \cup {BlankLine},
                           r \in [1..n -> sheet.rows \cup {BlankLine}] } :
            n \in 0..(MaxLines - 1) }

\* the draws Math.floor(Math.random() * n) considered: all lowest, all highest
RandomDraws == {
    [experience |-> 0, age |-> 0, medicalStatus |-> 0, trainingScore |-> 0,
     missionReadiness |-> 0, skillLevel |-> 0, leadershipPotential |-> 0],
    [experience |-> 19, age |-> 19, medicalStatus |-> 2, trainingScore |-> 39,
     missionReadiness |-> 2, skillLevel |-> 3, leadershipPotential |-> 2] }

\* the lines joined by the line terminator eol
RECURSIVE JoinLines(_, _)
JoinLines(ls, eol) ==
    IF ls = <<>> THEN <<>>
    ELSE IF Len(ls) = 1 THEN ls[1]
    ELSE ls[1] \o eol \o JoinLines(Tail(ls), eol)

InitParse ==
    /\ fileLines \in {<<>>} \cup SheetLines(IdSheet) \cup SheetLines(ScoreSheet)
    /\ \E eol \in {<<"\n">>, <<"\r", "\n">>} : text = JoinLines(fileLines, eol)
    /\ result = Pending
    /\ ScoreIdle
    /\ AppIdle
    /\ PlanIdle
    /\ StatIdle
    /\ MetricIdle
    /\ AuthIdle
    /\ DirIdle

\* reader.onload
ReaderOnload ==
    /\ result.status = "pending"
    /\ \E rnd \in [1..MaxLines -> RandomDraws] : result' = parseCSVData(text, rnd)
    /\ UNCHANGED <<fileLines, text, scoreVars, appVars, planVars, statVars, metricVars, authVars, dirVars>>

\* reader.onerror
ReaderOnerror ==
    /\ result.status = "pending"
    /\ result' = Rejected("Failed to read file")
    /\ UNCHANGED <<fileLines, text, scoreVars, appVars, planVars, statVars, metricVars, authVars, dirVars>>

NextParse == ReaderOnload \/ ReaderOnerror

SpecParse == InitParse /\ [][NextParse]_vars

---------------------------------------------------------------------------
(* The upload flow: App and FileUploadPage *)

\* s ends with suffix
EndsWith(s, suffix) ==
    /\ Len(s) >= Len(suffix)
    /\ SubSeq(s, Len(s) - Len(suffix) + 1, Len(s)) = suffix

\* file.name.match(/\.(csv|xlsx?)$/i)
MatchesSheetName(name) ==
    \/ EndsWith(ToLowerCase(name), <<".","c","s","v">>)
    \/ EndsWith(ToLowerCase(name), <<".","x","l","s">>)
    \/ EndsWith(ToLowerCase(name), <<".","x","l","s","x">>)

\* the files the user picks: a sheet of one record, a header without rows, a
\* sheet whose only row is short, and a sheet under a name that is not a
\* spreadsheet's
Files == {
    [name |-> <<"r","o","s","t","e","r",".","c","s","v">>, text |-> <<"i","d",",","n","a","m","e","\n","I","A","F","7",",","A","s","h","a">>],
    [name |-> <<"E","m","p","t","y",".","X","L","S","X">>,  text |-> <<"i","d",",","n","a","m","e","\n">>],
    [name |-> <<"s","h","o","r","t",".","x","l","s">>,  text |-> <<"i","d",",","n","a","m","e","\n","I","A","F","8">>],
    [name |-> <<"r","o","s","t","e","r",".","t","x","t">>, text |-> <<"i","d",",","n","a","m","e","\n","I","A","F","7",",","A","s","h","a">>] }

\* JSON.parse(JSON.stringify(v)) of a field: NaN, Infinity and -Infinity
\* are written as null
JsonValue(v) == IF v.t \in {"nan", "infinity"} THEN Null ELSE v

\* JSON.parse(JSON.stringify(data)) of a collection
JsonRoundTrip(data) ==
    [j \in 1..Len(data) |->
        [f \in DOMAIN data[j] |->
            IF f = "extra"
            THEN [key \in DOMAIN data[j].extra |-> JsonValue(data[j].extra[key])]
            ELSE JsonValue(data[j][f])]]

\* authService.saveUserData(userId, data), on the stored snapshots
saveUserData(all, userId, data) ==
    [all EXCEPT ![userId] = [present |-> TRUE, personnelData |-> JsonRoundTrip(data)]]

\* authService.getUserData(userId)
getUserData(all, userId) == all[userId]

\* userData && userData.personnelData.length > 0
HasData(all, userId) ==
    getUserData(all, userId).present /\ Len(getUserData(all, userId).personnelData) > 0

\* App renders FileUploadPage
PageShown == currentUser # NoUser /\ ~isDataLoaded

\* FileUploadPage leaves the screen: its state is dropped, and the calls it
\* started go on without a component to update
Unmounted(ups) == [k \in DOMAIN ups |-> [ups[k] EXCEPT !.mounted = FALSE]]

PageReset == uploadError' = "" /\ isUploading' = FALSE /\ uploadSuccess' = FALSE

\* App.handleDataUploaded(data), with the rendering that follows
handleDataUploaded(data, ups) ==
    /\ personnelData' = data
    /\ isDataLoaded' = TRUE
    /\ uploads' = Unmounted(ups)
    /\ PageReset

InitApp ==
    /\ AppIdle
    /\ PlanIdle
    /\ StatIdle
    /\ MetricIdle
    /\ AuthIdle
    /\ DirIdle
    /\ ScoreIdle
    /\ ParseIdle

\* LoginForm: authService.login succeeds for user u, then App.handleLogin
HandleLogin(u) ==
    /\ currentUser = NoUser
    /\ sessionUser' = u
    /\ currentUser' = u
    /\ IF getUserData(userData, u).present
          /\ Len(getUserData(userData, u).personnelData) > 0
       THEN /\ personnelData' = getUserData(userData, u).personnelData
            /\ isDataLoaded' = TRUE
       ELSE UNCHANGED <<personnelData, isDataLoaded>>
    /\ UNCHANGED <<userData, pageVars, uploads, scoreVars, parseVars, planVars, statVars, metricVars, authVars, dirVars>>

\* App.handleLogout, from the upload page or from the dashboard
HandleLogout ==
    /\ currentUser # NoUser
    /\ sessionUser' = NoUser
    /\ currentUser' = NoUser
    /\ personnelData' = <<>>
    /\ isDataLoaded' = FALSE
    /\ uploads' = Unmounted(uploads)
    /\ PageReset
    /\ UNCHANGED <<userData, scoreVars, parseVars, planVars, statVars, metricVars, authVars, dirVars>>

\* the dashboard's "Upload New Data" button
UploadNewData ==
    /\ currentUser # NoUser
    /\ isDataLoaded
    /\ personnelData' = <<>>
    /\ isDataLoaded' = FALSE
    /\ UNCHANGED <<currentUser, sessionUser, userData, pageVars, uploads,
                   scoreVars, parseVars, planVars, statVars, metricVars, authVars, dirVars>>

\* FileUploadPage.handleFileUpload up to the await, for a file picked in the
\* input (which is disabled while isUploading)
HandleFileUpload(file) ==
    /\ PageShown
    /\ ~isUploading
    /\ IF ~MatchesSheetName(file.name)
       THEN /\ uploadError' = "Please upload a CSV or Excel file"
            /\ UNCHANGED <<isUploading, uploadSuccess, uploads>>
       ELSE /\ \E k \in 1..MaxUploads :
                  /\ uploads[k].pc = "idle"
                  /\ \A j \in 1..(k - 1) : uploads[j].pc # "idle"
                  /\ uploads' = [uploads EXCEPT ![k] =
                         [pc |-> "reading", user |-> currentUser,
                          text |-> file.text, data |-> <<>>, mounted |-> TRUE]]
            /\ isUploading' = TRUE
            /\ uploadError' = ""
            /\ uploadSuccess' = FALSE
    /\ UNCHANGED <<currentUser, personnelData, isDataLoaded, sessionUser,
                   userData, scoreVars, parseVars, planVars, statVars, metricVars, authVars, dirVars>>

\* a variant whose catch block stores the empty batch and goes on to the
\* dashboard
HandleFileUploadSettled_DeliversOnFailure(k, outcome) ==
    /\ uploads[k].pc = "reading"
    /\ userData' = saveUserData(userData, uploads[k].user, outcome.data)
    /\ uploads' = [uploads EXCEPT ![k].pc = "scheduled", ![k].data = outcome.data]
    /\ IF uploads[k].mounted
       THEN uploadSuccess' = TRUE /\ uploadError' = "" /\ isUploading' = FALSE
       ELSE UNCHANGED pageVars
    /\ UNCHANGED <<currentUser, personnelData, isDataLoaded, sessionUser,
                   scoreVars, parseVars, planVars, statVars, metricVars, authVars, dirVars>>

\* FileUploadPage.handleFileUpload from the await on, once the promise of
\* parseCSVData has settled with outcome: the rest of the try block, or the
\* catch block, then the finally block.  State setters of a page that has
\* left the screen do nothing.
HandleFileUploadSettled(k, outcome) ==
    /\ uploads[k].pc = "reading"
    /\ IF outcome.status = "resolved"
       THEN /\ userData' = saveUserData(userData, uploads[k].user, outcome.data)
            /\ uploads' = [uploads EXCEPT ![k].pc = "scheduled",
                                          ![k].data = outcome.data]
            /\ IF uploads[k].mounted
               THEN uploadSuccess' = TRUE /\ uploadError' = "" /\ isUploading' = FALSE
               ELSE UNCHANGED pageVars
       ELSE /\ uploads' = [uploads EXCEPT ![k].pc = "failed"]
            /\ IF uploads[k].mounted
               THEN /\ uploadError' = "Error parsing file. Please ensure it contains valid personnel data."
                    /\ isUploading' = FALSE
                    /\ UNCHANGED uploadSuccess
               ELSE UNCHANGED pageVars
            /\ UNCHANGED userData
    /\ UNCHANGED <<currentUser, personnelData, isDataLoaded, sessionUser,
                   scoreVars, parseVars, planVars, statVars, metricVars, authVars, dirVars>>

\* reader.onload of upload k: parseCSVData settles, handleFileUpload resumes
UploadRead(k) ==
    /\ uploads[k].pc = "reading"
    /\ \E rnd \in [1..Len(NonBlankLines(uploads[k].text)) -> RandomDraws] :
           HandleFileUploadSettled(k, parseCSVData(uploads[k].text, rnd))

\* reader.onerror of upload k
UploadReadError(k) ==
    /\ uploads[k].pc = "reading"
    /\ HandleFileUploadSettled(k, Rejected("Failed to read file"))

\* the timer of upload k, set one second before: onDataUploaded(data)
UploadTimeout(k) ==
    /\ uploads[k].pc = "scheduled"
    /\ handleDataUploaded(uploads[k].data, [uploads EXCEPT ![k].pc = "delivered"])
    /\ UNCHANGED <<currentUser, sessionUser, userData, scoreVars, parseVars, planVars, statVars, metricVars, authVars, dirVars>>

\* FileUploadPage.loadExistingData, behind the "Load Data" button
LoadExistingData ==
    /\ PageShown
    /\ getUserData(userData, currentUser).present
    /\ Len(getUserData(userData, currentUser).personnelData) > 0
    /\ handleDataUploaded(getUserData(userData, currentUser).personnelData, uploads)
    /\ UNCHANGED <<currentUser, sessionUser, userData, scoreVars, parseVars, planVars, statVars, metricVars, authVars, dirVars>>

\* the page is loaded anew: the pending file reads and timers of the old
\* page are gone with it, and the effect that App runs on mount restores the
\* user of the stored session and this user's snapshot
Reload ==
    /\ currentUser' = sessionUser
    /\ IF /\ sessionUser # NoUser
          /\ getUserData(userData, sessionUser).present
          /\ Len(getUserData(userData, sessionUser).personnelData) > 0
       THEN /\ personnelData' = getUserData(userData, sessionUser).personnelData
            /\ isDataLoaded' = TRUE
       ELSE /\ personnelData' = <<>>
            /\ isDataLoaded' = FALSE
    /\ uploads' = [k \in DOMAIN uploads |->
                      [uploads[k] EXCEPT
                          !.pc = IF @ \in {"reading", "scheduled"} THEN "dropped" ELSE @,
                          !.mounted = FALSE]]
    /\ PageReset
    /\ error' = ""
    /\ UNCHANGED <<sessionUser, userData, users, authResult, scoreVars, parseVars,
                   planVars, statVars, metricVars, dirVars>>

NextApp ==
    \/ \E u \in Users : HandleLogin(u)
    \/ HandleLogout
    \/ UploadNewData
    \/ \E file \in Files : HandleFileUpload(file)
    \/ \E k \in 1..MaxUploads : UploadRead(k)
    \/ \E k \in 1..MaxUploads : UploadReadError(k)
    \/ \E k \in 1..MaxUploads : UploadTimeout(k)
    \/ LoadExistingData

SpecApp == InitApp /\ [][NextApp]_vars

\* the files picked where the page is loaded anew: a sheet of one record
\* and a sheet with an age that is no finite number
ReloadFiles == {
    [name |-> <<"r","o","s","t","e","r",".","c","s","v">>, text |-> <<"i","d",",","n","a","m","e","\n","I","A","F","7",",","A","s","h","a">>],
    [name |-> <<"a","g","e","s",".","c","s","v">>, text |-> <<"i","d",",","a","g","e","\n","I","A","F","9",",","I","n","f","i","n","i","t","y">>] }

NextReload ==
    \/ Reload
    \/ \E u \in Users : HandleLogin(u)
    \/ HandleLogout
    \/ \E file \in ReloadFiles : HandleFileUpload(file)
    \/ \E k \in 1..MaxUploads : UploadRead(k)
    \/ \E k \in 1..MaxUploads : UploadTimeout(k)

SpecReload == InitApp /\ [][NextReload]_vars


---------------------------------------------------------------------------
(* The auth service: register, login and the two forms                     *)

\* the character U+20AC, which is outside Latin-1
Euro == "U+20AC"

\* the code unit of a character of the model's alphabet
charCodeAt(c) ==
    CASE c \in Range(LowerChars) -> 96 + (CHOOSE i \in 1..26 : LowerChars[i] = c)
      [] c \in Range(UpperChars) -> 64 + (CHOOSE i \in 1..26 : UpperChars[i] = c)
      [] c \in Range(DigitChars) -> 48 + DigitValue(c)
      [] c = "_" -> 95
      [] c = "@" -> 64
      [] c = "." -> 46
      [] c = Euro -> 8364
      [] OTHER -> 32

\* the base64 alphabet
Base64Chars == UpperChars \o LowerChars \o DigitChars \o <<"+", "/">>

RECURSIVE Base64(_)
\* the base64 encoding of a sequence of bytes
Base64(bytes) ==
    IF bytes = <<>> THEN <<>>
    ELSE LET a == bytes[1]
             b == IF Len(bytes) >= 2 THEN bytes[2] ELSE 0
             c == IF Len(bytes) >= 3 THEN bytes[3] ELSE 0
         IN  <<Base64Chars[(a \div 4) + 1],
               Base64Chars[(a % 4) * 16 + (b \div 16) + 1],
               IF Len(bytes) >= 2 THEN Base64Chars[(b % 16) * 4 + (c \div 64) + 1] ELSE "=",
               IF Len(bytes) >= 3 THEN Base64Chars[(c % 64) + 1] ELSE "=">>
             \o (IF Len(bytes) > 3 THEN Base64(SubSeq(bytes, 4, Len(bytes))) ELSE <<>>)

\* what btoa yields when it throws (no base64 text has this form)
Threw == <<"InvalidCharacterError">>

\* btoa(s): throws when a character is outside Latin-1
btoa(s) ==
    IF \E i \in DOMAIN s : charCodeAt(s[i]) > 255 THEN Threw
    ELSE Base64([i \in DOMAIN s |-> charCodeAt(s[i])])

\* AuthService.hashPassword(password)
hashPassword(password) == btoa(password \o <<"i","a","f","_","s","a","l","t","_","2","0","2","4">>)

\* the ids generateId() yields, in the order in which it yields them
UserIds == <<"u1", "u2">>

\* const { password, ...userWithoutPassword } = user
userWithoutPassword(user) ==
    [id |-> user.id, username |-> user.username, email |-> user.email,
     fullName |-> user.fullName]

\* what register and login return when they fail
Failure(call, message) ==
    [call |-> call, threw |-> FALSE, success |-> FALSE, message |-> message,
     user |-> NoUser]

Success(call, message, user) ==
    [call |-> call, threw |-> FALSE, success |-> TRUE, message |-> message,
     user |-> userWithoutPassword(user)]

\* a call that ended with an exception
Thrown(call) ==
    [call |-> call, threw |-> TRUE, success |-> FALSE, message |-> "",
     user |-> NoUser]

\* the user register builds from the form
newUser(userData_, userId) ==
    [id |-> userId, username |-> userData_.username, email |-> userData_.email,
     fullName |-> userData_.fullName, password |-> hashPassword(userData_.password)]

\* a variant that looks for the username only
register_UsernameOnly(stored, userData_, userId) ==
    IF \E i \in DOMAIN stored : stored[i].username = userData_.username
    THEN [result |-> Failure("register", "Username or email already exists"),
          users |-> stored]
    ELSE IF hashPassword(userData_.password) = Threw
    THEN [result |-> Thrown("register"), users |-> stored]
    ELSE [result |-> Success("register", "Registration successful",
                             newUser(userData_, userId)),
          users |-> Append(stored, newUser(userData_, userId))]

\* AuthService.register(userData) on the stored users, with the id that
\* generateId() yields: what it returns and the users it leaves stored
register(stored, userData_, userId) ==
    IF \E i \in DOMAIN stored :
           \/ stored[i].username = userData_.username
           \/ stored[i].email = userData_.email
    THEN [result |-> Failure("register", "Username or email already exists"),
          users |-> stored]
    ELSE IF hashPassword(userData_.password) = Threw
    THEN [result |-> Thrown("register"), users |-> stored]
    ELSE [result |-> Success("register", "Registration successful",
                             newUser(userData_, userId)),
          users |-> Append(stored, newUser(userData_, userId))]

\* Object.values(users).find(u => u.username === username): the position
\* of the first such user, 0 when there is none
Find(stored, username) ==
    IF \E i \in DOMAIN stored : stored[i].username = username
    THEN CHOOSE i \in DOMAIN stored :
             /\ stored[i].username = username
             /\ \A j \in 1..(i - 1) : stored[j].username # username
    ELSE 0

\* a variant that does not compare the password
login_AnyPassword(stored, username, password) ==
    LET i == Find(stored, username)
    IN  IF i = 0 THEN Failure("login", "Invalid username or password")
        ELSE Success("login", "Login successful", stored[i])

\* AuthService.login(username, password) on the stored users: what it
\* returns; on success the returned user is written to the session
login(stored, username, password) ==
    LET i == Find(stored, username)
    IN  IF i = 0 THEN Failure("login", "Invalid username or password")
        ELSE IF hashPassword(password) = Threw THEN Thrown("login")
        ELSE IF stored[i].password # hashPassword(password)
        THEN Failure("login", "Invalid username or password")
        ELSE Success("login", "Login successful", stored[i])

\* what is typed into RegisterForm
RegisterForms ==
    { [username |-> u, email |-> e, fullName |-> u, password |-> pw[1],
       confirmPassword |-> pw[2]] :
        u \in {<<"a","s","h","a">>, <<"r","a","v","i">>},
        e \in {<<"a","@","x",".","i","n">>, <<"r","@","x",".","i","n">>},
        pw \in { <<<<"s","e","c","r","e","t","1">>, <<"s","e","c","r","e","t","1">>>>, <<<<"s","e","c","r","e","t","2">>, <<"s","e","c","r","e","t","2">>>>,
                 <<<<"s","e","c","r","e","t","1">>, <<"s","e","c","r","e","t","2">>>>, <<<<"a","b","c">>, <<"a","b","c">>>>,
                 <<<<"s","e","c","r","e","t">> \o <<Euro>>, <<"s","e","c","r","e","t">> \o <<Euro>>>> } }

\* what is typed into LoginForm
LoginForms ==
    { [username |-> u, password |-> pw] :
        u \in {<<"a","s","h","a">>, <<"r","a","v","i">>, <<"m","i","r","a">>},
        pw \in {<<"s","e","c","r","e","t","1">>, <<"s","e","c","r","e","t","2">>, <<>>, <<"s","e","c","r","e","t">> \o <<Euro>>} }

\* the application as constructed, with an empty localStorage, showing one
\* of the two forms
InitAuth ==
    /\ AppIdle
    /\ PlanIdle
    /\ StatIdle
    /\ MetricIdle
    /\ AuthIdle
    /\ DirIdle
    /\ ScoreIdle
    /\ ParseIdle

\* RegisterForm.handleSubmit(formData): the two validations, then
\* authService.register and, when it succeeds, App.handleRegister
RegisterSubmit(formData) ==
    /\ currentUser = NoUser
    /\ IF formData.password # formData.confirmPassword
       THEN /\ error' = "Passwords do not match"
            /\ UNCHANGED <<users, authResult, currentUser>>
       ELSE IF Len(formData.password) < 6
       THEN /\ error' = "Password must be at least 6 characters long"
            /\ UNCHANGED <<users, authResult, currentUser>>
       ELSE LET userId == IF Len(users) < Len(UserIds)
                          THEN UserIds[Len(users) + 1] ELSE NoUser
                call == register(users, formData, userId)
            IN  /\ call.result.success => userId # NoUser
                /\ users' = call.users
                /\ authResult' = call.result
                /\ IF call.result.threw
                   THEN error' = "An unexpected error occurred" /\ UNCHANGED currentUser
                   ELSE IF call.result.success
                   THEN error' = "" /\ currentUser' = call.result.user.id
                   ELSE error' = call.result.message /\ UNCHANGED currentUser
    /\ UNCHANGED <<personnelData, isDataLoaded, sessionUser, userData, pageVars,
                   uploads, scoreVars, parseVars, planVars, statVars, metricVars,
                   dirVars>>

\* LoginForm.handleSubmit(formData): authService.login, which writes the
\* session when it succeeds, and then App.handleLogin
LoginSubmit(formData) ==
    /\ currentUser = NoUser
    /\ LET result_ == login(users, formData.username, formData.password)
       IN  /\ authResult' = result_
           /\ IF result_.threw
              THEN /\ error' = "An unexpected error occurred"
                   /\ UNCHANGED <<sessionUser, currentUser, personnelData, isDataLoaded>>
              ELSE IF result_.success
              THEN /\ error' = ""
                   /\ sessionUser' = result_.user.id
                   /\ currentUser' = result_.user.id
                   /\ IF HasData(userData, result_.user.id)
                      THEN /\ personnelData' = getUserData(userData, result_.user.id).personnelData
                           /\ isDataLoaded' = TRUE
                      ELSE UNCHANGED <<personnelData, isDataLoaded>>
              ELSE /\ error' = result_.message
                   /\ UNCHANGED <<sessionUser, currentUser, personnelData, isDataLoaded>>
    /\ UNCHANGED <<users, userData, pageVars, uploads, scoreVars, parseVars,
                   planVars, statVars, metricVars, dirVars>>

NextAuth ==
    \/ \E formData \in RegisterForms : RegisterSubmit(formData)
    \/ \E formData \in LoginForms : LoginSubmit(formData)
    \/ HandleLogout
    \/ Reload

SpecAuth == InitAuth /\ [][NextAuth]_vars

---------------------------------------------------------------------------
(* The planning stores: TrainingManagement and MissionDeployment *)

\* s.includes(sub)
Includes(s, sub) ==
    \E i \in 0..(Len(s) - Len(sub)) : SubSeq(s, i + 1, i + Len(sub)) = sub

\* s.split(' ')[0]
FirstWord(s) == Split(s, " ")[1]

\* array.sort(compare) for a comparator that subtracts numeric keys: the
\* items in non-decreasing order of their keys, equal keys in their old order
StableSort(items, keys) ==
    LET n == Len(items)
        Position(i) == 1 + Cardinality({j \in 1..n :
                           keys[j] < keys[i] \/ (keys[j] = keys[i] /\ j < i)})
    IN  [k \in 1..n |-> items[CHOOSE i \in 1..n : Position(i) = k]]

\* the search box matches the person's name or specialization
SearchMatch(person) ==
    \/ searchTerm = <<>>
    \/ Includes(ToLowerCase(person.name.s), ToLowerCase(searchTerm))
    \/ Includes(ToLowerCase(person.specialization.s), ToLowerCase(searchTerm))

\* the specialization filter lets the person through
SpecFilter(person) ==
    filterSpecialization = <<"a","l","l">> \/ person.specialization = Str(filterSpecialization)

\* a recommendation for the person names the program
IsRecommended(person, program) ==
    LET recommendations_ == generateTrainingRecommendations(person, now)
        name == ToLowerCase(program.name)
    IN  \E r \in DOMAIN recommendations_ :
            \/ Includes(ToLowerCase(recommendations_[r]), FirstWord(name))
            \/ Includes(name, FirstWord(ToLowerCase(recommendations_[r])))

\* a variant of the filter without the medical gate
SuitableForProgram_NoMedicalGate(person, program) ==
    /\ \A r \in DOMAIN program.roster : program.roster[r] # person.id
    /\ SearchMatch(person)
    /\ SpecFilter(person)
    /\ (IsRecommended(person, program) \/ JsLess(person.trainingScore, 80))

\* the filter of TrainingManagement.getSuitablePersonnel
SuitableForProgram(person, program) ==
    /\ \A r \in DOMAIN program.roster : program.roster[r] # person.id
    /\ OptionalToLowerCase(person.medicalStatus) = Str(Lit.fit)
    /\ SearchMatch(person)
    /\ SpecFilter(person)
    /\ (IsRecommended(person, program) \/ JsLess(person.trainingScore, 80))

\* a variant of the key that sorts the highest training score first
TrainingKey_Descending(person) == 0 - person.trainingScore.n

\* a - b for the sort: the numeric key of a training score
TrainingKey(person) == person.trainingScore.n

\* TrainingManagement.getSuitablePersonnel(program)
TrainingCandidates(data, program) ==
    LET Suitable(person) == SuitableForProgram(person, program)
        kept == SelectSeq(data, Suitable)
    IN  StableSort(kept, [k \in DOMAIN kept |-> TrainingKey(kept[k])])

\* MissionDeployment.getAvailabilityStatus(person)
getAvailabilityStatus(person) ==
    IF OptionalToLowerCase(person.medicalStatus) # Str(Lit.fit) THEN "Medical"
    ELSE IF OptionalToLowerCase(person.missionReadiness) = Str(Lit.training)
    THEN "Training"
    ELSE IF \E m \in DOMAIN missions :
                /\ missions[m].status = "Active"
                /\ \E r \in DOMAIN missions[m].roster :
                       missions[m].roster[r] = person.id
    THEN "Deployed"
    ELSE "Available"

\* the filter of MissionDeployment.getSuitablePersonnel
SuitableForMission(person, mission) ==
    /\ \/ Len(mission.requiredSpecializations) = 0
       \/ \E q \in DOMAIN mission.requiredSpecializations :
              Str(mission.requiredSpecializations[q]) = person.specialization
    /\ getAvailabilityStatus(person) = "Available"
    /\ NumGreaterEq(calculateReadinessScore(person), 70)
    /\ SearchMatch(person)
    /\ SpecFilter(person)

\* MissionDeployment.getSuitablePersonnel(mission): b - a on the readiness
\* score
MissionCandidates(data, mission) ==
    LET Suitable(person) == SuitableForMission(person, mission)
        kept == SelectSeq(data, Suitable)
    IN  StableSort(kept, [k \in DOMAIN kept |-> 0 - calculateReadinessScore(kept[k]).n])

\* a variant of enrollPersonnel that admits one person past the capacity
enrollPersonnel_OnePastCapacity(prev, programId, personnelId) ==
    [k \in DOMAIN prev |->
        IF prev[k].id = programId /\ Len(prev[k].roster) <= prev[k].capacity
        THEN [prev[k] EXCEPT !.roster = Append(@, personnelId)]
        ELSE prev[k]]

\* TrainingManagement.enrollPersonnel: the updater given to
\* setTrainingPrograms
enrollPersonnel(prev, programId, personnelId) ==
    [k \in DOMAIN prev |->
        IF prev[k].id = programId /\ Len(prev[k].roster) < prev[k].capacity
        THEN [prev[k] EXCEPT !.roster = Append(@, personnelId)]
        ELSE prev[k]]

\* roster.filter(id => id !== personnelId)
Without(roster, personnelId) ==
    LET Other(id) == id # personnelId IN SelectSeq(roster, Other)

\* TrainingManagement.unenrollPersonnel and
\* MissionDeployment.removePersonnelFromMission: the updater
unenrollPersonnel(prev, entityId, personnelId) ==
    [k \in DOMAIN prev |->
        IF prev[k].id = entityId
        THEN [prev[k] EXCEPT !.roster = Without(@, personnelId)]
        ELSE prev[k]]

\* a variant that does not compare the mission's id
assignPersonnelToMission_EveryMission(prev, missionId, personnelId) ==
    [k \in DOMAIN prev |-> [prev[k] EXCEPT !.roster = Append(@, personnelId)]]

\* MissionDeployment.assignPersonnelToMission: the updater given to setMissions
assignPersonnelToMission(prev, missionId, personnelId) ==
    [k \in DOMAIN prev |->
        IF prev[k].id = missionId
        THEN [prev[k] EXCEPT !.roster = Append(@, personnelId)]
        ELSE prev[k]]

\* `T${String(n).padStart(3, '0')}`
EntityId(letter, n) == <<letter>> \o PadStartZero(NumberToString(n), 3)

\* the collection the views are given: two fit persons (the one with the
\* higher training score and the lower readiness first), an unfit person and
\* a person without a medical status
PlanningData == <<
    [BasePersonnel EXCEPT !.id = Str(<<"I","A","F","0","0","0","1">>), !.name = Str(<<"A","s","h","a">>),
        !.specialization = Str(<<"P","i","l","o","t">>), !.medicalStatus = InStr.Fit,
        !.trainingScore = Num(90), !.experience = Num(0),
        !.skillLevel = InStr.Beginner],
    [BasePersonnel EXCEPT !.id = Str(<<"I","A","F","0","0","0","2">>), !.name = Str(<<"R","a","v","i">>),
        !.specialization = Str(<<"E","n","g","i","n","e","e","r">>), !.medicalStatus = InStr.FIT,
        !.trainingScore = Num(60), !.experience = Num(20),
        !.skillLevel = InStr.Expert],
    [BasePersonnel EXCEPT !.id = Str(<<"I","A","F","0","0","0","3">>), !.name = Str(<<"M","i","r","a">>),
        !.specialization = Str(<<"P","i","l","o","t">>), !.medicalStatus = InStr.Unfit,
        !.trainingScore = Num(50)],
    [BasePersonnel EXCEPT !.id = Str(<<"I","A","F","0","0","0","4">>), !.name = Str(<<"D","e","v">>),
        !.specialization = Str(<<"E","n","g","i","n","e","e","r">>), !.medicalStatus = Undefined,
        !.trainingScore = Num(40)] >>

\* the entities created in one behaviour, over both stores
MaxCreated == 1

\* the roster entries of one behaviour, over both stores
MaxEnrolled == 2

\* the new-program form when "Create" is clicked: complete or without a
\* name, the capacity field empty (parseInt gives NaN), 0, 1 or -1
ProgramForms ==
    { [name |-> n, capacity |-> c] :
        n \in { <<>>, <<"T","e","c","h","n","i","c","a","l"," ","R","e","f","r","e","s","h","e","r">> },
        c \in { NaN, Num(0), Num(1), Num(0 - 1) } }

\* the new-mission form when "Create" is clicked: no required
\* specializations, the required-personnel field empty or 1
MissionForms ==
    { [name |-> n, capacity |-> c] :
        n \in { <<>>, <<"O","p","e","r","a","t","i","o","n"," ","D","a","w","n">> }, c \in { NaN, Num(1) } }

\* the roster entries of a store
Enrolled(store) ==
    Cardinality({ e \in (DOMAIN store) \X (1..(MaxEnrolled + 1)) :
                    e[2] <= Len(store[e[1]].roster) })

TotalEnrolled == Enrolled(trainingPrograms) + Enrolled(missions)

TotalCreated ==
    (Len(trainingPrograms) - Len(InitialTrainingPrograms))
    + (Len(missions) - Len(InitialMissions))

\* App shows the dashboard of user u1 with the collection loaded
InitPlanning ==
    /\ currentUser = "u1"
    /\ sessionUser = "u1"
    /\ personnelData = PlanningData
    /\ isDataLoaded = TRUE
    /\ userData = saveUserData([u \in Users |-> NoUserData], "u1", PlanningData)
    /\ PageInit
    /\ uploads = [k \in 1..MaxUploads |-> NoUpload]
    /\ PlanIdle
    /\ StatIdle
    /\ MetricIdle
    /\ AuthIdle
    /\ DirIdle
    /\ ScoreIdle
    /\ ParseIdle

\* TrainingManagement.createTrainingProgram with the form as filled in
CreateTrainingProgram(form) ==
    /\ TotalCreated < MaxCreated
    /\ IF form.name = <<>>
       THEN UNCHANGED trainingPrograms
       ELSE trainingPrograms' = Append(trainingPrograms,
                Entity(EntityId("T", Len(trainingPrograms) + 1), form.name,
                       Or(form.capacity, Num(20)).n, <<>>, "Planned"))
    /\ UNCHANGED <<missions, searchTerm, filterSpecialization,
                   scoreVars, parseVars, appVars, statVars, metricVars, authVars, dirVars>>

\* the "Enroll" button of candidate c of program k: enrollPersonnel
EnrollPersonnel(k, c) ==
    /\ k \in DOMAIN trainingPrograms
    /\ TotalEnrolled < MaxEnrolled
    /\ LET suitablePersonnel == TrainingCandidates(personnelData, trainingPrograms[k])
       IN  /\ c \in DOMAIN suitablePersonnel
           /\ trainingPrograms' = enrollPersonnel(trainingPrograms,
                   trainingPrograms[k].id, suitablePersonnel[c].id)
    /\ UNCHANGED <<missions, searchTerm, filterSpecialization,
                   scoreVars, parseVars, appVars, statVars, metricVars, authVars, dirVars>>

\* the "Remove" button of roster entry r of program k: unenrollPersonnel
UnenrollPersonnel(k, r) ==
    /\ k \in DOMAIN trainingPrograms
    /\ r \in DOMAIN trainingPrograms[k].roster
    /\ trainingPrograms' = unenrollPersonnel(trainingPrograms, trainingPrograms[k].id,
                                             trainingPrograms[k].roster[r])
    /\ UNCHANGED <<missions, searchTerm, filterSpecialization,
                   scoreVars, parseVars, appVars, statVars, metricVars, authVars, dirVars>>

\* MissionDeployment.createMission with the form as filled in
CreateMission(form) ==
    /\ TotalCreated < MaxCreated
    /\ IF form.name = <<>>
       THEN UNCHANGED missions
       ELSE missions' = Append(missions,
                Entity(EntityId("M", Len(missions) + 1), form.name,
                       Or(form.capacity, Num(10)).n, <<>>, "Planning"))
    /\ UNCHANGED <<trainingPrograms, searchTerm, filterSpecialization,
                   scoreVars, parseVars, appVars, statVars, metricVars, authVars, dirVars>>

\* the "Assign" button of candidate c of mission k: assignPersonnelToMission
AssignPersonnelToMission(k, c) ==
    /\ k \in DOMAIN missions
    /\ TotalEnrolled < MaxEnrolled
    /\ LET suitablePersonnel == MissionCandidates(personnelData, missions[k])
       IN  /\ c \in DOMAIN suitablePersonnel
           /\ missions' = assignPersonnelToMission(missions, missions[k].id,
                                                   suitablePersonnel[c].id)
    /\ UNCHANGED <<trainingPrograms, searchTerm, filterSpecialization,
                   scoreVars, parseVars, appVars, statVars, metricVars, authVars, dirVars>>

\* the "Remove" button of roster entry r of mission k:
\* removePersonnelFromMission
RemovePersonnelFromMission(k, r) ==
    /\ k \in DOMAIN missions
    /\ r \in DOMAIN missions[k].roster
    /\ missions' = unenrollPersonnel(missions, missions[k].id, missions[k].roster[r])
    /\ UNCHANGED <<trainingPrograms, searchTerm, filterSpecialization,
                   scoreVars, parseVars, appVars, statVars, metricVars, authVars, dirVars>>

\* typing in the search box
SetSearchTerm(term) ==
    /\ searchTerm' = term
    /\ UNCHANGED <<trainingPrograms, missions, filterSpecialization,
                   scoreVars, parseVars, appVars, statVars, metricVars, authVars, dirVars>>

\* choosing in the specialization filter
SetFilterSpecialization(choice) ==
    /\ filterSpecialization' = choice
    /\ UNCHANGED <<trainingPrograms, missions, searchTerm,
                   scoreVars, parseVars, appVars, statVars, metricVars, authVars, dirVars>>

NextPlanning ==
    \/ \E form \in ProgramForms : CreateTrainingProgram(form)
    \/ \E k \in 1..(Len(InitialTrainingPrograms) + MaxCreated), c \in 1..Len(PlanningData) :
           EnrollPersonnel(k, c)
    \/ \E k \in 1..(Len(InitialTrainingPrograms) + MaxCreated), r \in 1..MaxEnrolled :
           UnenrollPersonnel(k, r)
    \/ \E form \in MissionForms : CreateMission(form)
    \/ \E k \in 1..(Len(InitialMissions) + MaxCreated), c \in 1..Len(PlanningData) :
           AssignPersonnelToMission(k, c)
    \/ \E k \in 1..(Len(InitialMissions) + MaxCreated), r \in 1..MaxEnrolled :
           RemovePersonnelFromMission(k, r)
    \/ \E term \in { <<>>, <<"P","I","L">> } : SetSearchTerm(term)
    \/ \E choice \in { <<"a","l","l">>, <<"E","n","g","i","n","e","e","r">> } : SetFilterSpecialization(choice)

SpecPlanning == InitPlanning /\ [][NextPlanning]_vars

---------------------------------------------------------------------------
(* The aggregator: WorkforceAnalytics.analytics and                        *)
(* MedicalReadiness.medicalAnalytics                                       *)

\* the property key a value is converted to in acc[value]
KeyOf(v) ==
    CASE v.t = "string" -> v.s
      [] v.t = "number" -> NumberToString(v.n)
      [] v.t = "nan" -> <<"N","a","N">>
      [] v.t = "infinity" -> IF v.n > 0 THEN <<"I","n","f","i","n","i","t","y">> ELSE <<"-","I","n","f","i","n","i","t","y">>
      [] v.t = "null" -> <<"n","u","l","l">>
      [] OTHER -> <<"u","n","d","e","f","i","n","e","d">>

\* v >= k
JsGreaterEq(v, k) == NumGreaterEq(ToNumber(v), k)

\* the age group of a person
AgeGroup(person) ==
    IF JsLess(person.age, 30) THEN <<"<","3","0">>
    ELSE IF JsLess(person.age, 40) THEN <<"3","0","-","3","9">>
    ELSE IF JsLess(person.age, 50) THEN <<"4","0","-","4","9">>
    ELSE <<"5","0","+">>

\* the experience group of a person
ExperienceGroup(person) ==
    IF JsLess(person.experience, 5) THEN <<"0","-","4">>
    ELSE IF JsLess(person.experience, 10) THEN <<"5","-","9">>
    ELSE IF JsLess(person.experience, 15) THEN <<"1","0","-","1","4">>
    ELSE <<"1","5","+">>

\* the training score group of a person
TrainingScoreGroup(person) ==
    IF JsGreaterEq(person.trainingScore, 90) THEN <<"9","0","-","1","0","0">>
    ELSE IF JsGreaterEq(person.trainingScore, 80) THEN <<"8","0","-","8","9">>
    ELSE IF JsGreaterEq(person.trainingScore, 70) THEN <<"7","0","-","7","9">>
    ELSE IF JsGreaterEq(person.trainingScore, 60) THEN <<"6","0","-","6","9">>
    ELSE <<"<","6","0">>

\* ((count / total) * 100).toFixed(1), in tenths of a percent
ToFixed1_Truncated(count, total) == (1000 * count) \div total

ToFixed1(count, total) == (2000 * count + total) \div (2 * total)

\* data.reduce(...) counting the persons under each key, then
\* Object.entries(...).map(...): one entry for each key, in the order in
\* which the keys first occur, with its count and its percentage of the
\* whole collection (the keys of the collections below are no array
\* indices, which Object.entries would move to the front)
Distribution(keys) ==
    LET n == Len(keys)
        first == {i \in 1..n : \A j \in 1..(i - 1) : keys[j] # keys[i]}
        Nth(k) == CHOOSE i \in first : Cardinality({j \in first : j < i}) = k - 1
        Count(i) == Cardinality({j \in 1..n : keys[j] = keys[i]})
    IN  [k \in 1..Cardinality(first) |->
            [key |-> keys[Nth(k)], count |-> Count(Nth(k)),
             percentage |-> ToFixed1(Count(Nth(k)), n)]]

\* .sort((a, b) => b.count - a.count)
SortByCount(entries) ==
    StableSort(entries, [k \in DOMAIN entries |-> 0 - entries[k].count])

\* .slice(0, 10) without the slice
Top10_All(entries) == entries

\* .slice(0, 10)
Top10(entries) == SubSeq(entries, 1, Min(10, Len(entries)))

\* the useMemo of WorkforceAnalytics
WorkforceAnalytics(data) ==
    [computed               |-> TRUE,
     ageDistribution        |-> Distribution([i \in DOMAIN data |-> AgeGroup(data[i])]),
     experienceDistribution |-> Distribution([i \in DOMAIN data |->
                                    ExperienceGroup(data[i]) \o <<" ","y","e","a","r","s">>]),
     rankData               |-> SortByCount(Distribution([i \in DOMAIN data |-> KeyOf(data[i].rank)])),
     specializationData     |-> Top10(SortByCount(Distribution(
                                    [i \in DOMAIN data |-> KeyOf(data[i].specialization)]))),
     skillData              |-> Distribution([i \in DOMAIN data |-> KeyOf(data[i].skillLevel)]),
     trainingData           |-> Distribution([i \in DOMAIN data |-> TrainingScoreGroup(data[i])]),
     readinessData          |-> Distribution([i \in DOMAIN data |-> KeyOf(data[i].missionReadiness)]),
     medicalData            |-> Distribution([i \in DOMAIN data |-> KeyOf(data[i].medicalStatus)]),
     leadershipData         |-> Distribution([i \in DOMAIN data |-> KeyOf(data[i].leadershipPotential)])]

\* ageHealthData: for each age group its persons, the fit ones among them
\* and the fitness rate of the group
AgeHealth(data) ==
    LET groups == Distribution([i \in DOMAIN data |-> AgeGroup(data[i])])
        Fit(g) == Cardinality({i \in DOMAIN data :
                      /\ AgeGroup(data[i]) = g
                      /\ OptionalToLowerCase(data[i].medicalStatus) = Str(Lit.fit)})
    IN  [k \in DOMAIN groups |->
            [group |-> groups[k].key, total |-> groups[k].count,
             fit |-> Fit(groups[k].key),
             fitnessRate |-> ToFixed1(Fit(groups[k].key), groups[k].count)]]

\* the useMemo of MedicalReadiness: statusData and ageHealthData
MedicalAnalytics(data) ==
    [computed      |-> TRUE,
     statusData    |-> Distribution([i \in DOMAIN data |-> KeyOf(data[i].medicalStatus)]),
     ageHealthData |-> AgeHealth(data)]

\* the largest collection
MaxPopulation == 14

\* the i-th of the values a free-text column takes
Label(i) == <<UpperChars[i]>>

\* a collection of n persons whose specializations cycle through `specs`
\* values and whose ranks cycle through `ranks` values; ages, experience,
\* training scores and the categorical fields vary with the position
Collection(n, specs, ranks) ==
    [i \in 1..n |->
        [BasePersonnel EXCEPT
            !.id = Str(<<"P">> \o NumberToString(i)),
            !.specialization = Str(Label(1 + (i % specs))),
            !.rank = Str(Label(1 + (i % ranks))),
            !.age = Num(22 + 3 * i),
            !.experience = Num(i),
            !.trainingScore = Num(52 + 4 * i),
            !.medicalStatus = <<InStr.Fit, InStr.FIT, InStr.Unfit, InStr.LimitedDuty>>[1 + (i % 4)],
            !.skillLevel = <<InStr.Expert, InStr.Beginner, InStr.Advanced>>[1 + (i % 3)],
            !.missionReadiness = <<InStr.Ready, InStr.Training>>[1 + (i % 2)],
            !.leadershipPotential = <<InStr.High, InStr.Medium, InStr.Low>>[1 + (i % 3)]]]

\* the non-empty collections given to the views
AnalyticsData ==
    { Collection(n, specs, ranks) :
        n \in 1..MaxPopulation,
        specs \in {1, 3, MaxPopulation + 1},
        ranks \in {1, 4, MaxPopulation + 1} }

InitAnalytics ==
    /\ personnelData \in AnalyticsData
    /\ currentUser = "u1"
    /\ sessionUser = "u1"
    /\ isDataLoaded = TRUE
    /\ userData = saveUserData([u \in Users |-> NoUserData], "u1", personnelData)
    /\ PageInit
    /\ uploads = [k \in 1..MaxUploads |-> NoUpload]
    /\ PlanIdle
    /\ StatIdle
    /\ MetricIdle
    /\ AuthIdle
    /\ DirIdle
    /\ ScoreIdle
    /\ ParseIdle

\* WorkforceAnalytics renders: useMemo computes analytics
RenderWorkforceAnalytics ==
    /\ ~analytics.computed
    /\ analytics' = WorkforceAnalytics(personnelData)
    /\ UNCHANGED <<medicalAnalytics, scoreVars, parseVars, appVars, planVars, metricVars, authVars, dirVars>>

\* MedicalReadiness renders: useMemo computes medicalAnalytics
RenderMedicalReadiness ==
    /\ ~medicalAnalytics.computed
    /\ medicalAnalytics' = MedicalAnalytics(personnelData)
    /\ UNCHANGED <<analytics, scoreVars, parseVars, appVars, planVars, metricVars, authVars, dirVars>>

NextAnalytics == RenderWorkforceAnalytics \/ RenderMedicalReadiness

SpecAnalytics == InitAnalytics /\ [][NextAnalytics]_vars

---------------------------------------------------------------------------
(* The key metrics of the views: averages and shares of the population     *)

\* a / b for integers a and b >= 0, in units of 1/unit rounded half up:
\* 0 / 0 is NaN and a / 0 is Infinity for a > 0
JsDivide(a, b, unit) ==
    IF b = 0 THEN (IF a = 0 THEN NaN ELSE Infinity)
    ELSE Num((2 * unit * a + b) \div (2 * b))

RECURSIVE JsSum(_, _)
\* values.reduce((sum, v) => sum + v, 0) over the first n values, all of
\* them numbers in a collection of the normalizer
JsSum(values, n) ==
    IF n = 0 THEN 0 ELSE JsSum(values, n - 1) + values[n].n

\* averageTrainingScore and averageExperience of WorkforceAnalytics, in
\* tenths as rendered by toFixed(1)
Averages(data) ==
    [computed |-> TRUE,
     averageTrainingScore |->
         JsDivide(JsSum([i \in DOMAIN data |-> data[i].trainingScore], Len(data)),
                  Len(data), 10),
     averageExperience |->
         JsDivide(JsSum([i \in DOMAIN data |-> data[i].experience], Len(data)),
                  Len(data), 10)]

\* availablePersonnel of MissionDeployment and the share rendered as
\* ((availablePersonnel / data.length) * 100).toFixed(0)
MissionSummary(data) ==
    LET availablePersonnel ==
            Cardinality({i \in DOMAIN data : getAvailabilityStatus(data[i]) = "Available"})
    IN  [computed |-> TRUE,
         availablePersonnel |-> availablePersonnel,
         availability |-> JsDivide(availablePersonnel, Len(data), 100)]

\* filteredData of PredictiveAnalytics
FilteredData(data) ==
    LET Selected(p) == p.specialization = Str(selectedSpecialization)
    IN  IF selectedSpecialization = <<"a","l","l">> THEN data ELSE SelectSeq(data, Selected)

\* the shares of PredictiveAnalytics.analytics that divide by
\* filteredData.length: skillGaps in percent and the average training score
\* of performanceTrend (before its random variation), in tenths
Predictive(data) ==
    LET filteredData == FilteredData(data)
        Level(name) == Cardinality({i \in DOMAIN filteredData :
                                       filteredData[i].skillLevel = Str(name)})
    IN  [computed |-> TRUE,
         skillGaps |->
             [expert       |-> JsDivide(Level(<<"E","x","p","e","r","t">>), Len(filteredData), 100),
              advanced     |-> JsDivide(Level(<<"A","d","v","a","n","c","e","d">>), Len(filteredData), 100),
              intermediate |-> JsDivide(Level(<<"I","n","t","e","r","m","e","d","i","a","t","e">>), Len(filteredData), 100),
              beginner     |-> JsDivide(Level(<<"B","e","g","i","n","n","e","r">>), Len(filteredData), 100)],
         avgScore |->
             JsDivide(JsSum([i \in DOMAIN filteredData |-> filteredData[i].trainingScore],
                            Len(filteredData)),
                      Len(filteredData), 10)]

\* the collections the dashboard is shown with: the empty one comes from an
\* upload all of whose rows were skipped
MetricsData == AnalyticsData \cup {<<>>}

InitMetrics ==
    /\ personnelData \in MetricsData
    /\ currentUser = "u1"
    /\ sessionUser = "u1"
    /\ isDataLoaded = TRUE
    /\ userData = saveUserData([u \in Users |-> NoUserData], "u1", personnelData)
    /\ PageInit
    /\ uploads = [k \in 1..MaxUploads |-> NoUpload]
    /\ PlanIdle
    /\ StatIdle
    /\ MetricIdle
    /\ AuthIdle
    /\ DirIdle
    /\ ScoreIdle
    /\ ParseIdle

\* WorkforceAnalytics renders its key metrics
RenderAverages ==
    /\ ~averages.computed
    /\ averages' = Averages(personnelData)
    /\ UNCHANGED <<missionSummary, selectedSpecialization, predictive, scoreVars,
                   parseVars, appVars, planVars, statVars, authVars, dirVars>>

\* MissionDeployment renders its summary statistics
RenderMissionSummary ==
    /\ ~missionSummary.computed
    /\ missionSummary' = MissionSummary(personnelData)
    /\ UNCHANGED <<averages, selectedSpecialization, predictive, scoreVars,
                   parseVars, appVars, planVars, statVars, authVars, dirVars>>

\* the specialization select of PredictiveAnalytics: 'all' or one of the
\* specializations of the collection; the memo is computed anew
SetSelectedSpecialization(choice) ==
    /\ choice # selectedSpecialization
    /\ selectedSpecialization' = choice
    /\ predictive' = NotComputed
    /\ UNCHANGED <<averages, missionSummary, scoreVars, parseVars, appVars,
                   planVars, statVars, authVars, dirVars>>

\* PredictiveAnalytics renders: useMemo computes analytics
RenderPredictive ==
    /\ ~predictive.computed
    /\ predictive' = Predictive(personnelData)
    /\ UNCHANGED <<averages, missionSummary, selectedSpecialization, scoreVars,
                   parseVars, appVars, planVars, statVars, authVars, dirVars>>

NextMetrics ==
    \/ RenderAverages
    \/ RenderMissionSummary
    \/ \E choice \in {<<"a","l","l">>} \cup {KeyOf(personnelData[i].specialization) :
                                      i \in DOMAIN personnelData} :
           SetSelectedSpecialization(choice)
    \/ RenderPredictive

SpecMetrics == InitMetrics /\ [][NextMetrics]_vars

---------------------------------------------------------------------------
(* Personnel directory: PersonnelOverview filters the collection and shows
   it ten persons to a page *)

itemsPerPage == 10

\* the persons the search box and the two filters let through
DirectoryFilteredData(data) ==
    LET term == ToLowerCase(searchTerm)
        matchesSearch(person) ==
            \/ Includes(ToLowerCase(person.name.s), term)
            \/ Includes(ToLowerCase(person.id.s), term)
            \/ Includes(ToLowerCase(person.specialization.s), term)
        matchesRank(person) ==
            filterRank = <<"a","l","l">> \/ person.rank = Str(filterRank)
        matchesSpecialization(person) ==
            filterSpecialization = <<"a","l","l">>
                \/ person.specialization = Str(filterSpecialization)
        matches(person) ==
            matchesSearch(person) /\ matchesRank(person) /\ matchesSpecialization(person)
    IN  SelectSeq(data, matches)

\* Math.ceil(filteredData.length / itemsPerPage)
totalPages == (Len(DirectoryFilteredData(personnelData)) + itemsPerPage - 1) \div itemsPerPage

\* (currentPage - 1) * itemsPerPage
startIndex == (currentPage - 1) * itemsPerPage

\* Math.max(a, b)
Max(a, b) == IF a > b THEN a ELSE b

\* a directory of more than one page whose ranks and specializations vary
DirectoryData ==
    { Collection(n, specs, ranks) :
        n \in {1, itemsPerPage, itemsPerPage + 1, MaxPopulation},
        specs \in {1, 3},
        ranks \in {1, 4} }

\* what the user types in the search box
DirectoryTerms == { <<>>, <<"P","1">>, <<"b">>, <<"z","z">> }

\* the options of a filter: 'all' and the values the collection holds
FilterOptions(field) ==
    { <<"a","l","l">> } \cup { personnelData[i][field].s : i \in 1..Len(personnelData) }

InitDirectory ==
    /\ personnelData \in DirectoryData
    /\ currentUser = "u1"
    /\ sessionUser = "u1"
    /\ isDataLoaded = TRUE
    /\ userData = saveUserData([u \in Users |-> NoUserData], "u1", personnelData)
    /\ PageInit
    /\ uploads = [k \in 1..MaxUploads |-> NoUpload]
    /\ PlanIdle
    /\ StatIdle
    /\ MetricIdle
    /\ AuthIdle
    /\ DirIdle
    /\ ScoreIdle
    /\ ParseIdle

\* choosing in the rank filter
SetFilterRank(choice) ==
    /\ filterRank' = choice
    /\ UNCHANGED <<currentPage, scoreVars, parseVars, appVars, planVars, statVars,
                   metricVars, authVars>>

\* the Previous button, disabled on page 1
PreviousPage ==
    /\ currentPage # 1
    /\ currentPage' = Max(currentPage - 1, 1)
    /\ UNCHANGED <<filterRank, scoreVars, parseVars, appVars, planVars, statVars,
                   metricVars, authVars>>

\* the Next button, disabled on the page whose number is totalPages
NextPage ==
    /\ currentPage # totalPages
    /\ currentPage' = Min(currentPage + 1, totalPages)
    /\ UNCHANGED <<filterRank, scoreVars, parseVars, appVars, planVars, statVars,
                   metricVars, authVars>>

NextDirectory ==
    \/ \E term \in DirectoryTerms : SetSearchTerm(term)
    \/ \E choice \in FilterOptions("rank") : SetFilterRank(choice)
    \/ \E choice \in FilterOptions("specialization") : SetFilterSpecialization(choice)
    \/ PreviousPage
    \/ NextPage

SpecDirectory == InitDirectory /\ [][NextDirectory]_vars

---------------------------------------------------------------------------
(* Properties of the scoring engine *)

\* two strings that differ at most in the case of their letters
SameLetters(a, b) ==
    /\ Len(a) = Len(b)
    /\ \A i \in 1..Len(a) : CharToLowerCase(a[i]) = CharToLowerCase(b[i])

\* the categorical value v is the word w, in any case
Is(v, w) == v.t = "string" /\ SameLetters(v.s, w)

\* x/d rounded to the nearest integer, halves up
RoundHalfUp(x, d) == (2 * x + d) \div (2 * d)

MedicalPoints(v) ==
    IF Is(v, InStr.Fit.s) THEN 40
    ELSE IF Is(v, InStr.LimitedDuty.s) THEN 25
    ELSE IF Is(v, InStr.UnderReview.s) THEN 10
    ELSE 20

SkillPoints(v) ==
    IF Is(v, InStr.Expert.s) THEN 10
    ELSE IF Is(v, InStr.Advanced.s) THEN 8
    ELSE IF Is(v, InStr.Intermediate.s) THEN 6
    ELSE IF Is(v, InStr.Beginner.s) THEN 4
    ELSE 5

HasNumbers(p) ==
    ToNumber(p.trainingScore).t = "number" /\ ToNumber(p.experience).t = "number"

\* C1: for numeric trainingScore and experience the readiness score is
\* round(medical + trainingScore/100*30 + min(experience/20,1)*20 + skill),
\* with the medical and skill points of the table matched in any case; Fit,
\* trainingScore 100, experience >= 20, Expert gives exactly 100.
C1_ReadinessFormula ==
    (pc = "done" /\ HasNumbers(personnel)) =>
        LET ts == ToNumber(personnel.trainingScore).n
            ex == ToNumber(personnel.experience).n
            tenths == 10 * MedicalPoints(personnel.medicalStatus) + 3 * ts
                      + 10 * Min(ex, 20) + 10 * SkillPoints(personnel.skillLevel)
        IN  /\ score = Num(RoundHalfUp(tenths, 10))
            /\ ( /\ Is(personnel.medicalStatus, InStr.Fit.s)
                 /\ ts = 100
                 /\ ex >= 20
                 /\ Is(personnel.skillLevel, InStr.Expert.s) ) => score = Num(100)

C1_Witness ==
    /\ pc = "done"
    /\ personnel.medicalStatus = InStr.FIT
    /\ personnel.trainingScore = Num(100)
    /\ personnel.experience = Num(25)
    /\ personnel.skillLevel = InStr.EXPERT
    /\ score = Num(100)

\* a categorical field that is missing or names none of the known values
UnknownCategory(v, known) == v.t # "string" \/ \A w \in known : ~Is(v, w)

\* a numeric field that is missing, or 0 as after a failed parse
UnknownNumber(v) == v = Undefined \/ v = Num(0)

AllUnknown(p) ==
    /\ UnknownCategory(p.medicalStatus,
                       {InStr.Fit.s, InStr.LimitedDuty.s, InStr.UnderReview.s})
    /\ UnknownNumber(p.trainingScore)
    /\ UnknownNumber(p.experience)
    /\ UnknownCategory(p.skillLevel,
                       {InStr.Expert.s, InStr.Advanced.s, InStr.Intermediate.s,
                        InStr.Beginner.s})

\* C3: when medicalStatus, trainingScore, experience and skillLevel are all
\* unknown or missing, the readiness score is exactly 25.
C3_AllUnknownIs25 ==
    (pc = "done" /\ AllUnknown(personnel)) => score = Num(25)

RiskRank(r) == CASE r = "Low" -> 0 [] r = "Medium" -> 1 [] r = "High" -> 2

\* the risk score as the sum of the stated bands
BandScore(p) ==
      (IF p.age.n > 45 THEN 2 ELSE IF p.age.n \in 41..45 THEN 1 ELSE 0)
    + (IF p.experience.n > 15 THEN 2
       ELSE IF p.experience.n \in 11..15 THEN 1 ELSE 0)
    + (IF Is(p.medicalStatus, InStr.Fit.s) THEN 0 ELSE 1)
    + (IF p.trainingScore.n < 70 THEN 1 ELSE 0)
    + (IF Is(p.missionReadiness, InStr.NotReady.s) THEN 1 ELSE 0)

\* C4: the risk score adds 2 for age > 45 and 1 for age 41..45, 2 for
\* experience > 15 and 1 for 11..15, 1 for a medicalStatus other than fit,
\* 1 for trainingScore < 70 and 1 for missionReadiness 'not ready'; the
\* result is High from 4, Medium from 2, else Low; (46, 16, Fit, 75, Ready)
\* is High and (35, 5, Fit, 80, Ready) is Low.
C4_AttritionBands ==
    pc = "done" =>
        /\ riskScore(personnel) = BandScore(personnel)
        /\ risk = (IF BandScore(personnel) >= 4 THEN "High"
                   ELSE IF BandScore(personnel) >= 2 THEN "Medium" ELSE "Low")
        /\ ( /\ personnel.age = Num(46) /\ personnel.experience = Num(16)
             /\ personnel.medicalStatus = InStr.Fit
             /\ personnel.trainingScore = Num(75)
             /\ personnel.missionReadiness = InStr.Ready ) => risk = "High"
        /\ ( /\ personnel.age = Num(35) /\ personnel.experience = Num(5)
             /\ personnel.medicalStatus = InStr.Fit
             /\ personnel.trainingScore = Num(80)
             /\ personnel.missionReadiness = InStr.Ready ) => risk = "Low"

C4_Witness ==
    /\ pc = "done"
    /\ raisedFactor = "none"
    /\ personnel.age = Num(46) /\ personnel.experience = Num(16)
    /\ personnel.medicalStatus = InStr.Fit
    /\ personnel.trainingScore = Num(75)
    /\ personnel.missionReadiness = InStr.Ready
    /\ risk = "High"

\* C5: raising one risk factor of a record (age up, experience up,
\* trainingScore down, medicalStatus from fit to not fit, missionReadiness to
\* 'not ready') with the others held fixed never lowers the tier.
C5_AttritionMonotonic ==
    raisedFactor # "none" => RiskRank(prevRisk) <= RiskRank(risk)

C5_Witness ==
    /\ raisedFactor = "trainingScore"
    /\ personnel.trainingScore = Num(69)
    /\ prevRisk = "Medium"
    /\ risk = "High"

\* the five rules, as conditions on the record and the reference day
LastDeploymentDay(v) ==
    CASE v = InStr.d2024 -> 19723
      [] v = InStr.d2023 -> 19358
      [] OTHER -> -1

Rules(p, nowDay) == <<
    [name |-> Rec.core, fires |-> p.trainingScore.n < 70],
    [name |-> Rec.technical,
     fires |-> Is(p.skillLevel, InStr.Beginner.s)
               \/ Is(p.skillLevel, InStr.Intermediate.s)],
    [name |-> Rec.leadership,
     fires |-> Is(p.leadershipPotential, InStr.High.s) /\ p.experience.n > 5],
    [name |-> Rec.mission, fires |-> Is(p.missionReadiness, InStr.Training.s)],
    [name |-> Rec.deployment,
     fires |-> /\ LastDeploymentDay(p.lastDeployment) >= 0
               /\ nowDay - LastDeploymentDay(p.lastDeployment) > 365] >>

NoRuleFires(p, nowDay) == \A k \in 1..5 : ~Rules(p, nowDay)[k].fires

\* C6: the list of recommendations is never empty, and it is exactly
\* <<'Maintenance Training'>> when none of the five rules fires.
C6_RecommendationsNonEmpty ==
    pc = "done" =>
        /\ Len(recommendations) >= 1
        /\ NoRuleFires(personnel, now) => recommendations = <<Rec.maintenance>>

C6_Witness ==
    /\ pc = "done"
    /\ NoRuleFires(personnel, now)
    /\ recommendations = <<Rec.maintenance>>

\* C7: the list holds exactly the recommendations whose rule fires, each
\* once, in the order of the rules; 'Maintenance Training' occurs only as
\* the sole element; the categorical fields are matched in any case.
C7_RecommendationsExact ==
    pc = "done" =>
        LET rules == Rules(personnel, now)
            n == Len(recommendations)
        IN  /\ \A k \in 1..5 :
                   rules[k].fires <=> (\E i \in 1..n : recommendations[i] = rules[k].name)
            /\ \A i, j \in 1..n :
                   i < j => \E k, l \in 1..5 : /\ k < l
                                               /\ recommendations[i] = rules[k].name
                                               /\ recommendations[j] = rules[l].name
            /\ (\E i \in 1..n : recommendations[i] = Rec.maintenance)
                   => recommendations = <<Rec.maintenance>>
            /\ \A i \in 1..n :
                   \/ recommendations[i] = Rec.maintenance
                   \/ \E k \in 1..5 : recommendations[i] = rules[k].name
            /\ n >= 1

C7_Witness ==
    /\ pc = "done"
    /\ personnel.skillLevel = InStr.BEGINNER
    /\ personnel.leadershipPotential = InStr.HIGH
    /\ personnel.missionReadiness = InStr.TRAINING
    /\ recommendations = <<Rec.core, Rec.technical, Rec.leadership, Rec.mission,
                           Rec.deployment>>

---------------------------------------------------------------------------
(* Properties of the record normalizer *)

\* a line of the sheet with something other than white space on it
HasContent(line) == \E j \in 1..Len(line) : line[j] \notin WhiteSpace

\* the sheet's non-blank lines: the header row, then the data rows
SheetRows == SelectSeq(fileLines, HasContent)

\* the number of comma-separated fields of a line
FieldCount(line) == 1 + Cardinality({j \in 1..Len(line) : line[j] = ","})

\* the file was read (reader.onload ran, not reader.onerror)
WasRead == result.status # "pending" /\ result.message # "Failed to read file"

\* C2: every record of a collection the normalizer produces has a readiness
\* score that is an integer in 0..100.
C2_ReadinessInRange ==
    result.status = "resolved" =>
        \A j \in 1..Len(result.data) :
            LET r == calculateReadinessScore(result.data[j])
            IN  r.t = "number" /\ r.n \in 0..100

\* C8: an input with fewer than two non-blank lines is rejected with an
\* error and yields no records.
C8_RejectsWithoutDataRows ==
    (result.status # "pending" /\ Len(SheetRows) < 2) =>
        /\ result.status = "rejected"
        /\ result.message # ""
        /\ result.data = <<>>

C8_Witness ==
    /\ Len(fileLines) = 3
    /\ Len(SheetRows) = 1
    /\ fileLines[1] \in IdSheet.headers
    /\ result.status = "rejected"
    /\ result.message = "File must contain at least a header row and one data row"

\* the field of a record stored under a normalized header
FieldOf(rec, key) ==
    CASE key = Aliases.id[1] -> rec.id
      [] key = Aliases.name[1] -> rec.name
      [] key = Aliases.rank[1] -> rec.rank
      [] key = Aliases.branch[1] -> rec.branch
      [] key = Aliases.specialization[1] -> rec.specialization
      [] key = Aliases.experience[1] -> rec.experience
      [] key = Aliases.age[1] -> rec.age
      [] OTHER -> Get(rec.extra, key)

\* the record holds the text fields of the row under their headers (the last
\* column of a header that occurs twice)
Carries(rec, header, row) ==
    LET hs == SplitFields(header)
        vs == SplitFields(row)
    IN  \A k \in 1..Len(hs) :
            ( /\ normalizeHeader(hs[k]) \notin NumericKeys
              /\ \A k2 \in (k + 1)..Len(hs) :
                     normalizeHeader(hs[k2]) # normalizeHeader(hs[k]) )
            => FieldOf(rec, normalizeHeader(hs[k])) = Str(vs[k])

\* C10: a file with at least one data row that is read resolves; the
\* collection has one record for each data row with as many fields as the
\* header, in the order of the rows, and none for the other rows.
C10_OneRecordPerMatchingRow ==
    (WasRead /\ Len(SheetRows) >= 2) =>
        LET header == SheetRows[1]
            Matches(row) == FieldCount(row) = FieldCount(header)
            matching == SelectSeq(Tail(SheetRows), Matches)
        IN  /\ result.status = "resolved"
            /\ Len(result.data) = Len(matching)
            /\ \A j \in 1..Len(matching) :
                   Carries(result.data[j], header, matching[j])

C10_Witness ==
    /\ result.status = "resolved"
    /\ Len(fileLines) = 3
    /\ fileLines[1] \in IdSheet.headers
    /\ FieldCount(fileLines[2]) = 2
    /\ FieldCount(fileLines[3]) = 3
    /\ Len(result.data) = 1
    /\ result.data[1].name = Str(<<"R","a","v","i">>)

\* the fields of a line of comma-separated text as its writer meant them: a
\* comma between double quotes belongs to the field, the quotes and the
\* white space around the field do not
RECURSIVE CsvScan(_, _, _, _)
CsvScan(line, i, quoted, field) ==
    IF i > Len(line) THEN <<Trim(field)>>
    ELSE IF line[i] = "\"" THEN CsvScan(line, i + 1, ~quoted, field)
    ELSE IF line[i] = "," /\ ~quoted
         THEN <<Trim(field)>> \o CsvScan(line, i + 1, FALSE, <<>>)
    ELSE CsvScan(line, i + 1, quoted, Append(field, line[i]))

CsvFields(line) == CsvScan(line, 1, FALSE, <<>>)

\* the sheet has the columns id, name, rank in some spelling and one data row
\* of three values
IdNameRankSheet ==
    /\ Len(SheetRows) = 2
    /\ SheetRows[1] \in IdSheet.headers
    /\ Len(CsvFields(SheetRows[2])) = 3

\* C11: a sheet with the header columns id, name, rank, in any spelling that
\* normalizes to these keys, and one data row yields one record whose id,
\* name and rank are the three values of the row.
C11_IdNameRankRoundTrip ==
    (WasRead /\ IdNameRankSheet) =>
        /\ result.status = "resolved"
        /\ Len(result.data) = 1
        /\ result.data[1].id = Str(CsvFields(SheetRows[2])[1])
        /\ result.data[1].name = Str(CsvFields(SheetRows[2])[2])
        /\ result.data[1].rank = Str(CsvFields(SheetRows[2])[3])

\* C12: the ids of the records of one resolved ingestion are pairwise
\* distinct.
C12_IdsDistinct ==
    result.status = "resolved" =>
        \A i, j \in 1..Len(result.data) :
            i # j => result.data[i].id # result.data[j].id

\* the column of the header row whose normalized name is key, 0 if none (the
\* last one if several)
ColumnOf(header, key) ==
    LET hs == SplitFields(header)
        ks == {k \in 1..Len(hs) : normalizeHeader(hs[k]) = key}
    IN  IF ks = {} THEN 0 ELSE CHOOSE k \in ks : \A k2 \in ks : k2 <= k

\* the data rows of the sheet that have as many fields as the header, each
\* with its 1-based index among the rows after the header
MatchingRows ==
    LET rows == Tail(SheetRows)
        Indexed == [i \in 1..Len(rows) |-> [index |-> i, row |-> rows[i]]]
        Matches(r) == FieldCount(r.row) = FieldCount(SheetRows[1])
    IN  SelectSeq(Indexed, Matches)

\* the generated default id of row i: IAF and i padded to four digits
DefaultId(i) ==
    Str(<<"I", "A", "F">> \o
        (IF i < 10 THEN <<"0", "0", "0">> ELSE IF i < 100 THEN <<"0", "0">> ELSE <<"0">>)
        \o NumberToString(i))

\* C13: a record of a row that supplies no id (no id column, or an empty
\* value in it) has the generated default id of its row, and no record has
\* an empty id.
C13_DefaultId ==
    (result.status = "resolved" /\ Len(SheetRows) >= 2) =>
        \A j \in 1..Len(result.data) :
            LET col == ColumnOf(SheetRows[1], Aliases.id[1])
                vs == SplitFields(MatchingRows[j].row)
            IN  /\ result.data[j].id # Str(<<>>)
                /\ (col = 0 \/ vs[IF col = 0 THEN 1 ELSE col] = <<>>)
                      => result.data[j].id = DefaultId(MatchingRows[j].index)

\* the value does not begin with a number
Unparsable(v) == v = <<>> \/ ~IsDigit(v[1])

\* C14: a value that does not parse as a number in the experience, age or
\* training score column makes the record's experience, age or trainingScore
\* 0.
C14_UnparsableNumberIsZero ==
    (result.status = "resolved" /\ Len(SheetRows) >= 2) =>
        \A j \in 1..Len(result.data) :
            LET vs == SplitFields(MatchingRows[j].row)
                exp == ColumnOf(SheetRows[1], Aliases.experience[1])
                age == ColumnOf(SheetRows[1], Aliases.age[1])
                ts  == ColumnOf(SheetRows[1], Aliases.trainingScore[1])
            IN  /\ (exp # 0 /\ Unparsable(vs[IF exp = 0 THEN 1 ELSE exp]))
                      => result.data[j].experience = Num(0)
                /\ (age # 0 /\ Unparsable(vs[IF age = 0 THEN 1 ELSE age]))
                      => result.data[j].age = Num(0)
                /\ (ts # 0 /\ Unparsable(vs[IF ts = 0 THEN 1 ELSE ts]))
                      => result.data[j].trainingScore = Num(0)


---------------------------------------------------------------------------
(* Properties of the upload flow *)

\* the calls of handleFileUpload whose batch is on its way to the
\* application or has reached it
Delivering(ups) == {k \in 1..MaxUploads : ups[k].pc \in {"scheduled", "delivered"}}

\* C9: ingestion is all-or-nothing.  A file that cannot be parsed is never
\* on its way to the application; the step in which the parsing of an upload
\* fails leaves the collection in memory, the dashboard flag and every
\* user's persisted snapshot as they were, sets no delivery going, and shows
\* on the page that started the upload the one parse error message, without
\* the success notice; and a failed upload stays failed.
C9_IngestionAllOrNothing ==
    /\ [](\A k \in Delivering(uploads) : Len(SelectSeq(Split(uploads[k].text, "\n"), HasContent)) >= 2)
    /\ [][\A k \in 1..MaxUploads :
            /\ (uploads[k].pc = "reading" /\ uploads'[k].pc = "failed") =>
                  /\ personnelData' = personnelData
                  /\ isDataLoaded' = isDataLoaded
                  /\ userData' = userData
                  /\ Delivering(uploads') = Delivering(uploads)
                  /\ uploads'[k].data = <<>>
                  /\ uploads[k].mounted =>
                        /\ uploadError' = "Error parsing file. Please ensure it contains valid personnel data."
                        /\ ~uploadSuccess'
                        /\ ~isUploading'
            /\ uploads[k].pc = "failed" => uploads'[k].pc = "failed"
       ]_vars

\* an upload failed on the page of a user who has a snapshot and whose
\* earlier upload is still to be delivered
C9_Witness ==
    /\ currentUser # NoUser
    /\ uploads[1].pc = "scheduled"
    /\ uploads[1].user = currentUser
    /\ uploads[2].pc = "failed"
    /\ uploads[2].mounted
    /\ userData[currentUser].present
    /\ Len(userData[currentUser].personnelData) = 1
    /\ personnelData = <<>>
    /\ uploadError = "Error parsing file. Please ensure it contains valid personnel data."

---------------------------------------------------------------------------
(* Properties of the planning stores *)

\* the ids of the collection
PersonnelIds == {personnelData[i].id : i \in DOMAIN personnelData}

\* enrolling anybody in the program changes nothing in the store
EnrollIsNoOp(program) ==
    \A id \in PersonnelIds :
        enrollPersonnel(trainingPrograms, program.id, id) = trainingPrograms

\* C15 as stated: every training program's roster has at most `capacity`
\* entries, and enrollPersonnel on a program whose roster has `capacity`
\* entries leaves the program list unchanged.
C15_RosterWithinCapacity ==
    \A k \in DOMAIN trainingPrograms :
        /\ Len(trainingPrograms[k].roster) <= trainingPrograms[k].capacity
        /\ Len(trainingPrograms[k].roster) = trainingPrograms[k].capacity
              => EnrollIsNoOp(trainingPrograms[k])

\* C15, amended: a program can be created with a negative capacity and is
\* then empty; every roster has at most `capacity` entries or none, and
\* enrollPersonnel on a program whose roster has `capacity` entries or more
\* leaves the program list unchanged.
C15_EnrollNeverExceedsCapacity ==
    \A k \in DOMAIN trainingPrograms :
        /\ \/ Len(trainingPrograms[k].roster) <= trainingPrograms[k].capacity
           \/ Len(trainingPrograms[k].roster) = 0
        /\ Len(trainingPrograms[k].roster) >= trainingPrograms[k].capacity
              => EnrollIsNoOp(trainingPrograms[k])

\* a created program of capacity 1 is full while another person is still
\* offered for it
C15_Witness ==
    \E k \in DOMAIN trainingPrograms :
        /\ k > Len(InitialTrainingPrograms)
        /\ trainingPrograms[k].capacity = 1
        /\ Len(trainingPrograms[k].roster) = 1
        /\ Len(TrainingCandidates(personnelData, trainingPrograms[k])) >= 1

\* C16: every mission's roster has at most `requiredPersonnel` entries, and
\* assigning to a mission whose roster has `requiredPersonnel` entries
\* changes nothing.
C16_MissionWithinRequired ==
    \A k \in DOMAIN missions :
        /\ Len(missions[k].roster) <= missions[k].capacity
        /\ Len(missions[k].roster) = missions[k].capacity
              => \A id \in PersonnelIds :
                     assignPersonnelToMission(missions, missions[k].id, id) = missions

\* the person is on the entity's roster
OnRoster(person, entity) ==
    \E r \in DOMAIN entity.roster : entity.roster[r] = person.id

\* C17: no candidate offered for a training program or for a mission is
\* already on its roster.
C17_CandidatesNotOnRoster ==
    /\ \A k \in DOMAIN trainingPrograms :
           LET list == TrainingCandidates(personnelData, trainingPrograms[k])
           IN  \A c \in DOMAIN list : ~OnRoster(list[c], trainingPrograms[k])
    /\ \A k \in DOMAIN missions :
           LET list == MissionCandidates(personnelData, missions[k])
           IN  \A c \in DOMAIN list : ~OnRoster(list[c], missions[k])

C19_SortDirections ==
    /\ \A k \in DOMAIN trainingPrograms :
           LET list == TrainingCandidates(personnelData, trainingPrograms[k])
           IN  \A c \in 1..(Len(list) - 1) :
                   list[c].trainingScore.n <= list[c + 1].trainingScore.n
    /\ \A k \in DOMAIN missions :
           LET list == MissionCandidates(personnelData, missions[k])
           IN  \A c \in 1..(Len(list) - 1) :
                   calculateReadinessScore(list[c]).n >= calculateReadinessScore(list[c + 1]).n

\* two persons are offered for the first program and for the first mission,
\* in both lists the second person of the collection first
C19_Witness ==
    /\ Len(TrainingCandidates(personnelData, trainingPrograms[1])) = 2
    /\ TrainingCandidates(personnelData, trainingPrograms[1])[1] = personnelData[2]
    /\ personnelData[2].trainingScore.n < personnelData[1].trainingScore.n
    /\ Len(MissionCandidates(personnelData, missions[1])) = 2
    /\ MissionCandidates(personnelData, missions[1])[1] = personnelData[2]
    /\ calculateReadinessScore(personnelData[2]).n > calculateReadinessScore(personnelData[1]).n
    /\ Len(missions[1].roster) = 1

---------------------------------------------------------------------------
(* Properties of the aggregator                                            *)

RECURSIVE SumOf(_, _)
\* the sums of the counts and of the percentages of the first n entries
SumOf(list, n) ==
    IF n = 0 THEN [count |-> 0, percentage |-> 0]
    ELSE LET rest == SumOf(list, n - 1)
         IN  [count |-> rest.count + list[n].count,
              percentage |-> rest.percentage + list[n].percentage]

Totals(list) == SumOf(list, Len(list))

\* the distributions over the whole population that the two views report
Reported ==
    (IF analytics.computed
     THEN {analytics.ageDistribution, analytics.experienceDistribution,
           analytics.rankData, analytics.specializationData,
           analytics.skillData, analytics.trainingData,
           analytics.readinessData, analytics.medicalData,
           analytics.leadershipData}
     ELSE {})
    \cup (IF medicalAnalytics.computed THEN {medicalAnalytics.statusData} ELSE {})

\* the distributions of every field but specialization
ReportedInFull ==
    (IF analytics.computed
     THEN {analytics.ageDistribution, analytics.experienceDistribution,
           analytics.rankData, analytics.skillData, analytics.trainingData,
           analytics.readinessData, analytics.medicalData,
           analytics.leadershipData}
     ELSE {})
    \cup (IF medicalAnalytics.computed THEN {medicalAnalytics.statusData} ELSE {})

Specializations == {personnelData[i].specialization : i \in DOMAIN personnelData}

\* C20 as stated: the counts of every reported distribution sum to the
\* population size and its percentages (in tenths of a percent) sum to 100%
\* within 0.5%.
C20_CountsAndPercentagesSum ==
    \A list \in Reported :
        /\ Totals(list).count = Len(personnelData)
        /\ Totals(list).percentage >= 1000 - 5
        /\ Totals(list).percentage <= 1000 + 5

\* C20, amended: the counts of every field but specialization sum to the
\* population size; the specialization list holds at most ten values, the
\* most frequent ones, and covers the population exactly when there are at
\* most ten distinct specializations; every percentage is within 0.05% of
\* the band's share of the whole population; and the percentages of a list
\* that covers the population in at most ten bands sum to 100% within 0.5%.
C20_SumsOfReportedBands ==
    LET N == Len(personnelData)
    IN  /\ \A list \in ReportedInFull : Totals(list).count = N
        /\ analytics.computed =>
              LET list == analytics.specializationData
              IN  /\ Len(list) = Min(10, Cardinality(Specializations))
                  /\ Totals(list).count <= N
                  /\ Totals(list).count = N <=> Cardinality(Specializations) <= 10
                  /\ \A k \in 1..(Len(list) - 1) : list[k].count >= list[k + 1].count
        /\ \A list \in Reported :
              /\ \A k \in DOMAIN list :
                    /\ 2 * N * list[k].percentage - 2000 * list[k].count <= N
                    /\ 2000 * list[k].count - 2 * N * list[k].percentage <= N
              /\ (Totals(list).count = N /\ Len(list) <= 10) =>
                    /\ Totals(list).percentage >= 1000 - 5
                    /\ Totals(list).percentage <= 1000 + 5

\* both views have rendered a collection with more than ten
\* specializations and with more than ten ranks whose percentages sum to
\* less than 99.5%
C20_Witness ==
    /\ analytics.computed
    /\ medicalAnalytics.computed
    /\ Cardinality(Specializations) > 10
    /\ Len(analytics.specializationData) = 10
    /\ Totals(analytics.specializationData).count < Len(personnelData)
    /\ Len(analytics.rankData) > 10
    /\ Totals(analytics.rankData).count = Len(personnelData)
    /\ Totals(analytics.rankData).percentage < 1000 - 5
    /\ Len(medicalAnalytics.statusData) = 4

---------------------------------------------------------------------------
(* Properties of the key metrics                                           *)

\* the averages and shares the views have computed
ComputedMetrics ==
    (IF averages.computed
     THEN {averages.averageTrainingScore, averages.averageExperience} ELSE {})
    \cup (IF missionSummary.computed THEN {missionSummary.availability} ELSE {})
    \cup (IF predictive.computed
          THEN {predictive.skillGaps.expert, predictive.skillGaps.advanced,
                predictive.skillGaps.intermediate, predictive.skillGaps.beginner,
                predictive.avgScore}
          ELSE {})

\* C21: every average and share computed over an empty collection is a
\* number, not the NaN or Infinity of a division by zero.
C21_DefinedOnEmptyCollection ==
    Len(personnelData) = 0 => \A m \in ComputedMetrics : m.t = "number"

---------------------------------------------------------------------------
(* Properties of the snapshots                                             *)

\* upload k succeeds in this step
Succeeds(k) == uploads[k].pc = "reading" /\ uploads'[k].pc = "scheduled"

\* user u has a snapshot that is not empty
HasSnapshot(all, u) == all[u].present /\ Len(all[u].personnelData) > 0

\* C22: a successful upload replaces the uploader's snapshot by the
\* collection D it yielded and leaves the other users' snapshots alone,
\* nothing else changes a snapshot, and a login of user U or a reload with
\* U's session puts U's snapshot, if it is not empty, in memory and shows
\* the dashboard.
C22_UploadReloadRoundTrip ==
    [][/\ \A k \in 1..MaxUploads :
              Succeeds(k) =>
                  /\ userData'[uploads[k].user] =
                         [present |-> TRUE, personnelData |-> uploads'[k].data]
                  /\ \A u \in Users \ {uploads[k].user} : userData'[u] = userData[u]
       /\ userData' # userData => \E k \in 1..MaxUploads : Succeeds(k)
       /\ \A u \in Users :
              (/\ \/ currentUser = NoUser /\ currentUser' = u
                  \/ Reload /\ sessionUser = u
               /\ HasSnapshot(userData, u)) =>
                  /\ personnelData' = userData[u].personnelData
                  /\ isDataLoaded'
                  /\ currentUser' = u
      ]_vars

\* C23: while nobody is logged in the application holds no collection and
\* shows no dashboard, and the collection a logged-in user has in memory is
\* this user's snapshot or the batch of an upload this user made.
C23_OnlyOwnRecords ==
    /\ currentUser = NoUser => (~isDataLoaded /\ personnelData = <<>>)
    /\ (currentUser # NoUser /\ personnelData # <<>>) =>
          \/ personnelData = userData[currentUser].personnelData
          \/ \E k \in 1..MaxUploads :
                 /\ uploads[k].user = currentUser
                 /\ uploads[k].pc = "delivered"
                 /\ uploads[k].data = personnelData

\* C24: the dashboard is never shown with an empty collection.
C24_DashboardHasRecords == isDataLoaded => Len(personnelData) >= 1

---------------------------------------------------------------------------
(* Properties of the rosters                                               *)

\* no entry of the roster occurs twice
NoDuplicates(roster) ==
    \A a, b \in DOMAIN roster : roster[a] = roster[b] => a = b

\* C25: no personnel id occurs more than once in the roster of a training
\* program or of a mission.
C25_RostersWithoutDuplicates ==
    /\ \A k \in DOMAIN trainingPrograms : NoDuplicates(trainingPrograms[k].roster)
    /\ \A k \in DOMAIN missions : NoDuplicates(missions[k].roster)

\* store `next` differs from store `prev` at most in the roster of the
\* entities with the id entityId
OnlyRosterOf(prev, next, entityId) ==
    /\ DOMAIN next = DOMAIN prev
    /\ \A k \in DOMAIN prev :
           /\ [next[k] EXCEPT !.roster = prev[k].roster] = prev[k]
           /\ prev[k].id # entityId => next[k] = prev[k]

\* the entities of a store have distinct ids
DistinctIds(store) == \A a, b \in DOMAIN store : store[a].id = store[b].id => a = b

\* the ids an operation may name: those of the entities and one of no entity
EntityIds(store) == {store[k].id : k \in DOMAIN store} \cup {<<"X","9","9","9">>}

\* C30: each of the four roster operations, applied to the stores as they
\* are with any entity id and any personnel id, changes nothing but the
\* roster of the one entity with that id, and changes nothing at all when
\* no entity has that id.
C30_RosterOperationFrame ==
    /\ DistinctIds(trainingPrograms)
    /\ DistinctIds(missions)
    /\ \A p \in PersonnelIds :
          /\ \A id \in EntityIds(trainingPrograms) :
                /\ OnlyRosterOf(trainingPrograms,
                                enrollPersonnel(trainingPrograms, id, p), id)
                /\ OnlyRosterOf(trainingPrograms,
                                unenrollPersonnel(trainingPrograms, id, p), id)
          /\ \A id \in EntityIds(missions) :
                /\ OnlyRosterOf(missions, assignPersonnelToMission(missions, id, p), id)
                /\ OnlyRosterOf(missions, unenrollPersonnel(missions, id, p), id)
          /\ enrollPersonnel(trainingPrograms, <<"X","9","9","9">>, p) = trainingPrograms
          /\ unenrollPersonnel(trainingPrograms, <<"X","9","9","9">>, p) = trainingPrograms
          /\ assignPersonnelToMission(missions, <<"X","9","9","9">>, p) = missions
          /\ unenrollPersonnel(missions, <<"X","9","9","9">>, p) = missions

\* a program was created, and the first program and the first mission have
\* one person each on their rosters while the others have none
C30_Witness ==
    /\ Len(trainingPrograms) = 4
    /\ Len(trainingPrograms[1].roster) = 1
    /\ Len(missions[1].roster) = 1
    /\ \A k \in 2..4 : trainingPrograms[k].roster = <<>>
    /\ missions[2].roster = <<>>

---------------------------------------------------------------------------
(* Properties of the auth service                                          *)

\* C26: whenever the application has a current user, the stored session is
\* that user.
C26_SessionIsCurrentUser == currentUser # NoUser => sessionUser = currentUser

\* some stored user has the username or the email of the form
Taken(formData) ==
    \E i \in DOMAIN users :
        users[i].username = formData.username \/ users[i].email = formData.email

\* C27: no two stored users share a username or an email, and register
\* with a username or an email that a stored user has returns success =
\* false and leaves the stored users as they are.
C27_UniqueUsers ==
    /\ \A a, b \in DOMAIN users :
           (users[a].username = users[b].username \/ users[a].email = users[b].email)
               => a = b
    /\ \A formData \in RegisterForms :
           Taken(formData) =>
               /\ ~register(users, formData, NoUser).result.success
               /\ register(users, formData, NoUser).users = users

\* two users are stored and the last registration was refused
C27_Witness ==
    /\ Len(users) = 2
    /\ authResult.call = "register"
    /\ ~authResult.success /\ ~authResult.threw
    /\ error = "Username or email already exists"
    /\ users[1].password # users[2].password

\* the stored users with this username whose stored hash is the hash of
\* this password
Matching(username, password) ==
    {i \in DOMAIN users : /\ users[i].username = username
                          /\ users[i].password = hashPassword(password)}

\* C28: a login succeeds exactly when a stored user has the username and
\* the hash of the password; then the session and the returned user are
\* that user without the password; otherwise the session stays as it was;
\* the stored users stay as they were in both cases.
C28_LoginIffCredentialsMatch ==
    [][\A formData \in LoginForms :
           LoginSubmit(formData) =>
               LET match == Matching(formData.username, formData.password)
               IN  /\ authResult'.call = "login"
                   /\ authResult'.success <=> match # {}
                   /\ match # {} =>
                         \E i \in match :
                             /\ sessionUser' = users[i].id
                             /\ authResult'.user = userWithoutPassword(users[i])
                             /\ "password" \notin DOMAIN authResult'.user
                   /\ match = {} => sessionUser' = sessionUser
                   /\ users' = users
      ]_vars

\* the second of two stored users is logged in, with a password that is
\* not the first user's
C28_Witness ==
    /\ Len(users) = 2
    /\ authResult.call = "login" /\ authResult.success
    /\ authResult.user.id = "u2"
    /\ sessionUser = "u2" /\ currentUser = "u2"
    /\ users[1].password # users[2].password

\* C29: in the personnel directory the page number stays within
\* 1..max(1, totalPages), and the start index of the page slice is never
\* negative and never past the end of the filtered list
C29_PageWithinRange ==
    LET length == Len(DirectoryFilteredData(personnelData))
    IN  /\ currentPage \in 1..Max(1, totalPages)
        /\ startIndex >= 0
        /\ startIndex <= length

====
